---- MODULE Spec2Model ----
(***************************************************************************)
(* The Sync Engine of TxnZero: the API service (Python Backend/app.py) and *)
(* the standalone poller (Python Backend/DB Poller/graph_sync_service.py). *)
(*                                                                         *)
(* Representation choices                                                  *)
(*  - a timestamp is an integer; Epoch (0) is "2023-01-01 00:00:00".  The  *)
(*    watermark is kept as str(Timestamp) and compared by PostgreSQL after *)
(*    parsing the literal back, which is exact at microsecond precision,   *)
(*    so the watermark is the integer itself.                              *)
(*  - a risk is an integer number of hundredths: the relational risk_score *)
(*    (0..100 scale) is the integer itself, and a normalised risk r in     *)
(*    [0,1] (riskScore, ml_fraud_score, the cache's risk element) is       *)
(*    100*r.  NoRisk (-1) is SQL NULL.                                     *)
(*  - a string the code takes apart or uses as a key (phone number, VPA,   *)
(*    identifier) is a sequence of tokens.                                 *)
(*  - a network call is one step; it either is acknowledged or raises.     *)
(*  - rows with equal timestamps are returned in insertion order.          *)
(***************************************************************************)
EXTENDS Integers, Sequences, FiniteSets, TLC

\* largest created_at / first_seen_at a source row can carry
MaxTime == 3
\* the LIMIT of every read query (1000 in the source), scaled down
BatchLimit == 3

Epoch == 0
NoRisk == -1
RiskThreshold == 50

Times == 1..MaxTime

Streams == {"users", "devices", "txns"}

VARIABLES
    version,    \* "api" (app.py) or "poller" (graph_sync_service.py)
    env,        \* the environment of the run: table sizes, faults that can occur
    tasks,      \* app.py: background tasks added by the trigger endpoints, not yet started
    ran,        \* app.py: the background tasks started so far, in order (history)
    replies,    \* app.py: the responses the trigger endpoints have returned (history)
    users,      \* gateway_db.users: sequence of rows in insertion order
    txns,       \* switch_db.transactions
    devices,    \* gateway_db.user_devices
    conn,       \* app.py: the four psycopg2 connection slots
    state,      \* self.state: the in-memory watermarks
    cursor,     \* Redis keys sync:<key>; absent from the domain when not set
    gnodes,     \* Neo4j nodes
    gedges,     \* Neo4j relationships
    features,   \* Redis keys user:<id>:features, each holding <<risk, kyc>>
    wk,         \* per worker: position in the running sync method
    hist        \* per stream: row ids of the batch of a run the graph store aborted

vars == <<version, env, tasks, ran, replies, users, txns, devices, conn, state, cursor, gnodes, gedges, features, wk, hist>>

\* the threads that run sync methods: one in the poller; in app.py each
\* trigger is a background task, so runs can overlap (env.workers)
Workers == {"w1", "w2"}

------------------------------------------------------------------------------
(* Strings *)

RECURSIVE RemovePlus91(_)
\* str.replace("+91", ""): every non-overlapping occurrence, left to right
RemovePlus91(s) ==
    IF Len(s) = 0 THEN s
    ELSE IF Len(s) >= 3 /\ SubSeq(s, 1, 3) = <<"+", "9", "1">>
         THEN RemovePlus91(SubSeq(s, 4, Len(s)))
         ELSE <<Head(s)>> \o RemovePlus91(Tail(s))

RECURSIVE LStrip(_)
LStrip(s) == IF Len(s) > 0 /\ Head(s) = " " THEN LStrip(Tail(s)) ELSE s

RECURSIVE RStrip(_)
RStrip(s) == IF Len(s) > 0 /\ s[Len(s)] = " " THEN RStrip(SubSeq(s, 1, Len(s) - 1)) ELSE s

\* str.strip()
Strip(s) == RStrip(LStrip(s))

\* phone_str = str(row['phone_number']).replace("+91", "").strip()
PhoneStr(phone) == Strip(RemovePlus91(phone))

\* estimated_vpa = f"{phone_str}@okaxis"
EstimatedVpa(phone) == PhoneStr(phone) \o <<"@", "okaxis">>

RECURSIVE BeforeAt(_)
\* payer_vpa.split('@')[0]
BeforeAt(s) ==
    IF Len(s) = 0 \/ Head(s) = "@" THEN <<>> ELSE <<Head(s)>> \o BeforeAt(Tail(s))

\* phone_number LIKE '%<suffix>'
LikeSuffix(phone, suffix) ==
    /\ Len(suffix) <= Len(phone)
    /\ SubSeq(phone, Len(phone) - Len(suffix) + 1, Len(phone)) = suffix

\* toString($uid) of Cypher, str(n) of Python
IdString(n) == <<CASE n = 1 -> "1" [] n = 2 -> "2" [] n = 3 -> "3" [] n = 4 -> "4">>

------------------------------------------------------------------------------
(* The relational source *)

\* Rows that may be inserted into gateway_db.users.  user_id is the serial
\* key, so rows arrive in user_id order.
UserProfiles ==
    <<  [phones |-> {<<"+", "9", "1", "7">>},   kyc_status |-> "VERIFIED", risk_score |-> 10],
        [phones |-> {<<"7">>, <<"1", "7">>},    kyc_status |-> "PENDING",  risk_score |-> NoRisk],
        [phones |-> {<<"8">>},                  kyc_status |-> "VERIFIED", risk_score |-> 70],
        [phones |-> {<<"9">>},                  kyc_status |-> "PENDING",  risk_score |-> 20]  >>

UserRow(uid, phone, t) ==
    [user_id |-> uid, phone_number |-> phone, kyc_status |-> UserProfiles[uid].kyc_status,
     risk_score |-> UserProfiles[uid].risk_score, created_at |-> t]

\* Rows that may be inserted into switch_db.transactions
\* a NULL payer_vpa / payee_vpa (None in the DataFrame, null as a Cypher parameter)
NullVpa == <<"NULL">>

TxnProfiles ==
    <<  [id |-> "t1", payer |-> <<"7", "@", "okaxis">>, payee |-> <<"8", "@", "okaxis">>,
         amount |-> 500, risks |-> {60, 90}, statuses |-> {"SUCCESS"}],
        [id |-> "t2", payer |-> <<"7", "@", "okaxis">>, payee |-> <<"8", "@", "okaxis">>,
         amount |-> 40, risks |-> {50, 60, 90}, statuses |-> {"BLOCKED_FRAUD"}],
        \* a row whose payer_vpa is NULL, and a well-formed row after it
        [id |-> "t3", payer |-> NullVpa, payee |-> <<"8", "@", "okaxis">>,
         amount |-> 70, risks |-> {30}, statuses |-> {"SUCCESS"}],
        [id |-> "t4", payer |-> <<"8", "@", "okaxis">>, payee |-> <<"7", "@", "okaxis">>,
         amount |-> 90, risks |-> {30}, statuses |-> {"SUCCESS"}]  >>

TxnRow(i, risk, status, t) ==
    [global_txn_id |-> TxnProfiles[i].id, payer_vpa |-> TxnProfiles[i].payer,
     payee_vpa |-> TxnProfiles[i].payee, amount |-> TxnProfiles[i].amount,
     ml_fraud_score |-> risk, status |-> status, created_at |-> t]

\* Rows that may be inserted into gateway_db.user_devices
DeviceProfiles ==
    <<  [user_id |-> 1, device_id |-> <<"dA">>, last_login_ip |-> <<"ip1">>],
        [user_id |-> 2, device_id |-> <<"dA">>, last_login_ip |-> <<"ip2">>]  >>

DeviceRow(i, t) ==
    [user_id |-> DeviceProfiles[i].user_id, device_id |-> DeviceProfiles[i].device_id,
     last_login_ip |-> DeviceProfiles[i].last_login_ip, first_seen_at |-> t]

Range(q) == {q[i] : i \in 1..Len(q)}

Min(a, b) == IF a <= b THEN a ELSE b

Max(a, b) == IF a >= b THEN a ELSE b

RECURSIVE InsertSorted(_, _, _)
\* `row` put into the sorted sequence `q` after every row that is not newer
InsertSorted(q, row, tcol) ==
    IF Len(q) = 0 THEN <<row>>
    ELSE IF row[tcol] < Head(q)[tcol] THEN <<row>> \o q
         ELSE <<Head(q)>> \o InsertSorted(Tail(q), row, tcol)

RECURSIVE OrderByDesc(_, _)
\* a variant that sorts newest first: ORDER BY <tcol> DESC
OrderByDesc(rows, tcol) ==
    IF Len(rows) = 0 THEN <<>>
    ELSE LET rest == OrderByDesc(SubSeq(rows, 1, Len(rows) - 1), tcol)
             row == rows[Len(rows)]
         IN  SelectSeq(rest, LAMBDA r : r[tcol] > row[tcol]) \o <<row>> \o
             SelectSeq(rest, LAMBDA r : r[tcol] <= row[tcol])

RECURSIVE OrderBy(_, _)
\* ORDER BY <tcol> ASC
OrderBy(rows, tcol) ==
    IF Len(rows) = 0 THEN <<>>
    ELSE InsertSorted(OrderBy(SubSeq(rows, 1, Len(rows) - 1), tcol), rows[Len(rows)], tcol)

\* a variant that keeps the last n rows instead of the first n
LimitTail(rows, n) == SubSeq(rows, Len(rows) - Min(Len(rows), n) + 1, Len(rows))

\* LIMIT n
Limit(rows, n) == SubSeq(rows, 1, Min(Len(rows), n))

\* a variant of the users query that compares with `<>` instead of `>`
SelectUsersApi_NotEqual(tbl, wm, force) ==
    LET Keep(r) == force \/ r.created_at # wm
    IN  Limit(OrderBy(SelectSeq(tbl, Keep), "created_at"), BatchLimit)

\* app.py sync_users: the two queries
SelectUsersApi(tbl, wm, force) ==
    LET Keep(r) == force \/ r.created_at > wm
    IN  Limit(OrderBy(SelectSeq(tbl, Keep), "created_at"), BatchLimit)

\* a variant of the transactions query that compares with `>=` instead of `>`
SelectTxnsApi_AtLeast(tbl, wm) ==
    LET Keep(r) == r.created_at >= wm /\ r.status \in {"SUCCESS", "BLOCKED_FRAUD"}
    IN  Limit(OrderBy(SelectSeq(tbl, Keep), "created_at"), BatchLimit)

\* app.py sync_transactions: created_at > watermark AND status settled or blocked
SelectTxnsApi(tbl, wm) ==
    LET Keep(r) == r.created_at > wm /\ r.status \in {"SUCCESS", "BLOCKED_FRAUD"}
    IN  Limit(OrderBy(SelectSeq(tbl, Keep), "created_at"), BatchLimit)

\* poller sync_users
SelectUsersPoller(tbl, wm) ==
    LET Keep(r) == r.created_at > wm
    IN  Limit(OrderBy(SelectSeq(tbl, Keep), "created_at"), BatchLimit)

\* a variant of the devices query that compares with `>=` instead of `>`
SelectDevicesPoller_AtLeast(tbl, wm) ==
    LET Keep(r) == r.first_seen_at >= wm
    IN  Limit(OrderBy(SelectSeq(tbl, Keep), "first_seen_at"), BatchLimit)

\* poller sync_devices
SelectDevicesPoller(tbl, wm) ==
    LET Keep(r) == r.first_seen_at > wm
    IN  Limit(OrderBy(SelectSeq(tbl, Keep), "first_seen_at"), BatchLimit)

\* (variant) the poller's query without its status condition
SelectTxnsPoller_AnyStatus(tbl, wm) ==
    LET Keep(r) == r.created_at > wm
    IN  Limit(OrderBy(SelectSeq(tbl, Keep), "created_at"), BatchLimit)

\* poller sync_transactions: created_at > watermark AND status = 'SUCCESS'
SelectTxnsPoller(tbl, wm) ==
    LET Keep(r) == r.created_at > wm /\ r.status = "SUCCESS"
    IN  Limit(OrderBy(SelectSeq(tbl, Keep), "created_at"), BatchLimit)

\* the rows a run of `stream` reads
Select(stream, force) ==
    CASE version = "api" /\ stream = "users"       -> SelectUsersApi(users, state["last_user_time"], force)
      [] version = "api" /\ stream = "txns"        -> SelectTxnsApi(txns, state["last_txn_time"])
      [] version = "poller" /\ stream = "users"    -> SelectUsersPoller(users, state["last_user_time"])
      [] version = "poller" /\ stream = "devices"  -> SelectDevicesPoller(devices, state["last_device_time"])
      [] version = "poller" /\ stream = "txns"     -> SelectTxnsPoller(txns, state["last_txn_time"])

------------------------------------------------------------------------------
(* The graph store (Neo4j).  A node is named by the key it was created     *)
(* with, <<label, property, value>>; nodes[key] holds how many nodes were  *)
(* created with that key (n) and their properties.  A relationship is      *)
(* named by <<type, start node, end node, properties>>; edges[name] is how *)
(* many such relationships exist.                                          *)

EmptyGraph == [nodes |-> <<>>, edges |-> <<>>]

\* the nodes MERGE/MATCH (x:label {prop: val}) binds
MatchNodes(nodes, label, prop, val) ==
    {k \in DOMAIN nodes : /\ k[1] = label
                          /\ prop \in DOMAIN nodes[k].props
                          /\ nodes[k].props[prop] = val}

\* a variant that behaves as CREATE: a node is made whether or not one matches
MergeNodeCreate(nodes, label, prop, val) ==
    IF <<label, prop, val>> \in DOMAIN nodes
    THEN [nodes EXCEPT ![<<label, prop, val>>].n = @ + 1]
    ELSE (<<label, prop, val>> :> [n |-> 1, props |-> (prop :> val)]) @@ nodes

\* MERGE (x:label {prop: val}): bind the matching nodes, or create one
MergeNode(nodes, label, prop, val) ==
    IF MatchNodes(nodes, label, prop, val) # {}
    THEN nodes
    ELSE (<<label, prop, val>> :> [n |-> 1, props |-> (prop :> val)]) @@ nodes

\* SET x.p = v, ... on every node bound to x
SetProps(nodes, bound, new) ==
    [k \in DOMAIN nodes |->
        IF k \in bound THEN [nodes[k] EXCEPT !.props = new @@ @] ELSE nodes[k]]

\* MERGE (s)-[:type {props}]->(d) for every binding of s and d: bind the
\* matching relationship, or create one
MergeEdge(edges, type, S, D, props) ==
    LET want == {<<type, s, d, props>> : s \in S, d \in D}
    IN  [e \in DOMAIN edges \cup want |-> IF e \in DOMAIN edges THEN edges[e] ELSE 1]

NoProps == [p \in {} |-> 0]

\* a variant that keys the node by the phone: MERGE (u:User {userId: $phone})
UpsertUserApiByPhone(g, vpa, phone, kyc, risk) ==
    [nodes |-> SetProps(MergeNode(g.nodes, "User", "userId", phone),
                        MatchNodes(MergeNode(g.nodes, "User", "userId", phone), "User", "userId", phone),
                        [phone |-> phone, kyc |-> kyc, riskScore |-> risk]),
     edges |-> g.edges]

\* app.py sync_users:
\*   MERGE (u:User {userId: $vpa}) SET u.phone = $phone, u.kyc = $kyc, u.riskScore = $risk
UpsertUserApi(g, vpa, phone, kyc, risk) ==
    LET merged == MergeNode(g.nodes, "User", "userId", vpa)
    IN  [nodes |-> SetProps(merged, MatchNodes(merged, "User", "userId", vpa),
                            [phone |-> phone, kyc |-> kyc, riskScore |-> risk]),
         edges |-> g.edges]

\* app.py sync_transactions:
\*   MERGE (s:User {userId: $payer}) MERGE (r:User {userId: $payee})
\*   MERGE (s)-[:TRANSACTED_WITH {txnId, amount, ts, risk}]->(r)
UpsertTxnApi(g, payer, payee, tid, amt, ts, risk) ==
    LET n1 == MergeNode(g.nodes, "User", "userId", payer)
        n2 == MergeNode(n1, "User", "userId", payee)
    IN  [nodes |-> n2,
         edges |-> MergeEdge(g.edges, "TRANSACTED_WITH",
                             MatchNodes(n2, "User", "userId", payer),
                             MatchNodes(n2, "User", "userId", payee),
                             [txnId |-> tid, amount |-> amt, ts |-> ts, risk |-> risk])]

\* poller sync_users:
\*   MERGE (u:User {userId: toString($uid)})
\*   SET u.phone = $phone, u.kyc = $kyc, u.riskScore = toFloat($risk), u.vpa = $phone + '@upibank'
UpsertUserPoller(g, uid, phone, kyc, risk) ==
    LET merged == MergeNode(g.nodes, "User", "userId", IdString(uid))
    IN  [nodes |-> SetProps(merged, MatchNodes(merged, "User", "userId", IdString(uid)),
                            [phone |-> phone, kyc |-> kyc, riskScore |-> risk,
                             vpa |-> phone \o <<"@", "upibank">>]),
         edges |-> g.edges]

\* poller sync_devices:
\*   MATCH (u:User {userId: toString($uid)})
\*   MERGE (d:Device {deviceId: $did}) MERGE (i:IP {address: $ip})
\*   MERGE (u)-[:USED_DEVICE {lastSeen: $seen}]->(d) MERGE (u)-[:HAS_IP]->(i)
\* With no user bound by the MATCH the statement has no rows and creates nothing.
UpsertDevicePoller(g, uid, did, ip, seen) ==
    LET U == MatchNodes(g.nodes, "User", "userId", IdString(uid))
        n1 == MergeNode(g.nodes, "Device", "deviceId", did)
        n2 == MergeNode(n1, "IP", "address", ip)
        e1 == MergeEdge(g.edges, "USED_DEVICE", U, MatchNodes(n2, "Device", "deviceId", did),
                        [lastSeen |-> seen])
    IN  IF U = {} THEN g
        ELSE [nodes |-> n2,
              edges |-> MergeEdge(e1, "HAS_IP", U, MatchNodes(n2, "IP", "address", ip), NoProps)]

\* poller sync_transactions:
\*   MERGE (sender:User {vpa: $payer}) MERGE (receiver:User {vpa: $payee})
\*   MERGE (sender)-[:SENT_MONEY {txnId, amount, ts}]->(receiver)
UpsertTxnPoller(g, payer, payee, tid, amt, ts) ==
    LET n1 == MergeNode(g.nodes, "User", "vpa", payer)
        n2 == MergeNode(n1, "User", "vpa", payee)
    IN  [nodes |-> n2,
         edges |-> MergeEdge(g.edges, "SENT_MONEY",
                             MatchNodes(n2, "User", "vpa", payer),
                             MatchNodes(n2, "User", "vpa", payee),
                             [txnId |-> tid, amount |-> amt, ts |-> ts])]

\* number of nodes with the given label
CountNodes(nodes, label) ==
    LET RECURSIVE Sum(_)
        Sum(T) == IF T = {} THEN 0
                  ELSE LET k == CHOOSE x \in T : TRUE IN nodes[k].n + Sum(T \ {k})
    IN  Sum({k \in DOMAIN nodes : k[1] = label})

\* number of relationships of the given type that carry txnId = tid
CountTxnEdges(edges, type, tid) ==
    LET RECURSIVE Sum(_)
        Sum(T) == IF T = {} THEN 0
                  ELSE LET e == CHOOSE x \in T : TRUE IN edges[e] + Sum(T \ {e})
    IN  Sum({e \in DOMAIN edges : e[1] = type /\ e[4].txnId = tid})

------------------------------------------------------------------------------
(* Row projections *)

\* raw_risk = float(risk_score) unless NULL/NaN, else 0.0; norm_risk = raw_risk / 100.0
NormRisk(row) == IF row.risk_score = NoRisk THEN 0 ELSE row.risk_score

\* kyc_val = 1.0 if str(kyc_status) == "VERIFIED" else 0.0
KycVal(row) == IF row.kyc_status = "VERIFIED" THEN 1 ELSE 0

\* json.dumps([norm_risk, kyc_val]): the 2-element list
UserFeatures(row) == <<NormRisk(row), KycVal(row)>>

\* txn_risk = float(row['ml_fraud_score']) if row['ml_fraud_score'] else 0.0
TxnRisk(row) == IF row.ml_fraud_score = NoRisk THEN 0 ELSE row.ml_fraud_score

\* a variant of the test: if txn_risk >= 0.50
HighRiskAtLeast(row) == TxnRisk(row) >= RiskThreshold

\* if txn_risk > 0.50
HighRisk(row) == TxnRisk(row) > RiskThreshold

\* the session.run of one row of `stream`, on graph g
ProjectRow(ver, stream, g, row) ==
    CASE ver = "api" /\ stream = "users" ->
            UpsertUserApi(g, EstimatedVpa(row.phone_number), PhoneStr(row.phone_number),
                          KycVal(row), NormRisk(row))
      [] ver = "api" /\ stream = "txns" ->
            UpsertTxnApi(g, row.payer_vpa, row.payee_vpa, row.global_txn_id, row.amount,
                         row.created_at, row.ml_fraud_score)
      [] ver = "poller" /\ stream = "users" ->
            UpsertUserPoller(g, row.user_id, row.phone_number, row.kyc_status, row.risk_score)
      [] ver = "poller" /\ stream = "devices" ->
            UpsertDevicePoller(g, row.user_id, row.device_id, row.last_login_ip, row.first_seen_at)
      [] ver = "poller" /\ stream = "txns" ->
            UpsertTxnPoller(g, row.payer_vpa, row.payee_vpa, row.global_txn_id, row.amount,
                            row.created_at)

\* Rows whose statement the graph store rejects every time: MERGE of a node
\* pattern with a null property value is an error in Cypher, so a transaction
\* with a NULL payer_vpa or payee_vpa makes session.run raise.
Unmappable(stream, row) ==
    stream = "txns" /\ NullVpa \in {row.payer_vpa, row.payee_vpa}

\* a variant that overwrites: UPDATE users SET risk_score = <txn_risk * 100>
RatchetRiskOverwrite(tbl, payer_vpa, txn_risk) ==
    [i \in 1..Len(tbl) |->
        IF LikeSuffix(tbl[i].phone_number, BeforeAt(payer_vpa))
        THEN [tbl[i] EXCEPT !.risk_score = txn_risk]
        ELSE tbl[i]]

\* UPDATE users SET risk_score = GREATEST(risk_score, <txn_risk * 100>)
\*   WHERE phone_number LIKE '%<phone_extracted>'   (GREATEST ignores NULL)
RatchetRisk(tbl, payer_vpa, txn_risk) ==
    [i \in 1..Len(tbl) |->
        IF LikeSuffix(tbl[i].phone_number, BeforeAt(payer_vpa))
        THEN [tbl[i] EXCEPT !.risk_score = Max(@, txn_risk)]
        ELSE tbl[i]]

\* Redis SET key value
RedisSet(store, key, val) == (key :> val) @@ store

\* Redis GET key: <<>> when absent, <<value>> otherwise
RedisGet(store, key) == IF key \in DOMAIN store THEN <<store[key]>> ELSE <<>>

\* a variant that does not read the entry: kyc = 0.0
KeptKycZero(curr) == 0

\* kyc = json.loads(curr)[1] if curr else 0.0
KeptKyc(curr) == IF curr = <<>> THEN 0 ELSE curr[1][2]

------------------------------------------------------------------------------
(* Connections of app.py *)

Slots == {"gateway_write", "switch_write", "gateway_read", "switch_read"}

SlotOrder == <<"gateway_write", "switch_write", "gateway_read", "switch_read">>

SlotIndex(s) == CHOOSE i \in 1..Len(SlotOrder) : SlotOrder[i] = s

\* `if not self.x_conn or self.x_conn.closed`
NeedsConnect(c, s) == c[s] \in {"none", "closed"}

\* a variant that connects nothing
ConnectPostgresNothing(c, bad) == c

\* connect_postgres(): connects, in order, every slot that is None or closed;
\* the first psycopg2.connect that raises ends the method (the exception is
\* logged and swallowed).  `bad` is the slot whose server refuses, or "none".
ConnectPostgres(c, bad) ==
    LET stop == IF bad \in Slots /\ NeedsConnect(c, bad) THEN SlotIndex(bad)
                ELSE Len(SlotOrder) + 1
    IN  [s \in Slots |-> IF NeedsConnect(c, s) /\ SlotIndex(s) < stop THEN "open" ELSE c[s]]

\* the slots of an unreachable database (env.down) that a call would connect
Down(c) == {s \in env.down : NeedsConnect(c, s)}

\* the slot at which a call of connect_postgres() can stop: the first slot of
\* an unreachable database, or before it a slot whose server refuses this
\* once (env.bad), or none
Refusing(c) ==
    IF Down(c) = {} THEN env.bad \cup {"none"}
    ELSE LET first == CHOOSE s \in Down(c) : \A t \in Down(c) : SlotIndex(s) <= SlotIndex(t)
         IN  {first} \cup {b \in env.bad : NeedsConnect(c, b) /\ SlotIndex(b) < SlotIndex(first)}

ConnectOutcomes(c) == {ConnectPostgres(c, bad) : bad \in Refusing(c)}

EnsureStep(cs, s) == UNION {IF NeedsConnect(c, s) THEN ConnectOutcomes(c) ELSE {c} : c \in cs}

\* ensure_conn(): one connect_postgres() per slot found None or closed
EnsureConn(c) ==
    EnsureStep(EnsureStep(EnsureStep(EnsureStep({c}, "gateway_write"), "switch_write"),
                          "gateway_read"), "switch_read")

\* the connection a stream's query is run on
ReadSlot(stream) == IF stream = "users" THEN "gateway_read" ELSE "switch_read"

------------------------------------------------------------------------------
(* Workers: one run of a sync method each *)

Resting == {"idle", "ok", "empty", "failed"}

\* a worker between runs: only the outcome of its last run is kept (and, in
\* the poller, which method of the loop it was)
Rest(outcome, stream) ==
    [pc |-> outcome, stream |-> IF version = "poller" THEN stream ELSE "none", force |-> FALSE,
     batch |-> <<>>, idx |-> 0, why |-> "none", kyc |-> 0]

IdleWorker ==
    [pc |-> "idle", stream |-> "none", force |-> FALSE, batch |-> <<>>, idx |-> 0,
     why |-> "none", kyc |-> 0]

\* the state key of a stream
StateKey(stream) ==
    CASE stream = "users"   -> "last_user_time"
      [] stream = "devices" -> "last_device_time"
      [] stream = "txns"    -> "last_txn_time"

\* the timestamp column of a stream's rows
TimeCol(stream) == IF stream = "devices" THEN "first_seen_at" ELSE "created_at"

\* the key of a source row
RowId(stream, row) ==
    CASE stream = "users"   -> <<row.user_id>>
      [] stream = "devices" -> <<row.user_id, row.device_id>>
      [] stream = "txns"    -> <<row.global_txn_id>>

RowIds(stream, batch) == [i \in 1..Len(batch) |-> RowId(stream, batch[i])]

\* a variant that takes the first row's timestamp: df.iloc[0][<tcol>]
FirstTime(w) == wk[w].batch[1][TimeCol(wk[w].stream)]

\* df.iloc[-1][<tcol>]
LastTime(w) == wk[w].batch[Len(wk[w].batch)][TimeCol(wk[w].stream)]

Row(w) == wk[w].batch[wk[w].idx]

Fault(stream, kind) == <<stream, kind>> \in env.faults

\* a variant in which an exception ends the process: the worker never runs again
RaiseAndStop(w, cause) == [wk EXCEPT ![w] = [IdleWorker EXCEPT !.pc = "halted"]]

\* the method raised: app.py goes to its except handler, the poller's handler
\* only logs
Raise(w, cause) ==
    IF version = "api"
    THEN [wk EXCEPT ![w].pc = "recover", ![w].why = cause]
    ELSE [wk EXCEPT ![w] = Rest("failed", wk[w].stream)]

\* a read that returned `b`; `if df.empty: return`
Fetched(w, stream, force, b) ==
    IF b = <<>>
    THEN [wk EXCEPT ![w] = Rest("empty", stream)]
    ELSE [wk EXCEPT ![w] = [pc |-> "graph", stream |-> stream, force |-> force, batch |-> b,
                            idx |-> 1, why |-> "none", kyc |-> 0]]

\* a read that raised
ReadFailed(w, stream, force) ==
    IF version = "api"
    THEN [wk EXCEPT ![w] = [pc |-> "recover", stream |-> stream, force |-> force,
                            batch |-> <<>>, idx |-> 0, why |-> "read", kyc |-> 0]]
    ELSE [wk EXCEPT ![w] = Rest("failed", stream)]

\* a variant that takes the loop to be over after any row
LoopDoneEarly(w) == TRUE

\* the batch is done when the row just handled was its last
LoopDone(w) == wk[w].idx >= Len(wk[w].batch)

\* a variant without `if not force`: every finished loop saves the watermark
NextRowAlwaysSave(w) ==
    IF ~LoopDone(w)
    THEN [wk EXCEPT ![w].pc = "graph", ![w].idx = @ + 1, ![w].kyc = 0]
    ELSE [wk EXCEPT ![w].pc = "advance", ![w].kyc = 0]

\* the `for _, row in df.iterrows()` loop moves on, or ends; after the loop
\* of app.py sync_users comes `if not force: self.save_state(...)`
NextRow(w) ==
    IF ~LoopDone(w)
    THEN [wk EXCEPT ![w].pc = "graph", ![w].idx = @ + 1, ![w].kyc = 0]
    ELSE IF wk[w].force THEN [wk EXCEPT ![w] = Rest("ok", wk[w].stream)]
         ELSE [wk EXCEPT ![w].pc = "advance", ![w].kyc = 0]

\* a run the graph store aborted leaves its batch on record
Aborted(w) ==
    IF wk[w].force THEN hist ELSE [hist EXCEPT ![wk[w].stream] = RowIds(wk[w].stream, wk[w].batch)]

\* the next read of the stream takes it off the record
Reread(stream, force) == IF force THEN hist ELSE [hist EXCEPT ![stream] = <<>>]

------------------------------------------------------------------------------
(* app.py: sync_users(force) and sync_transactions() *)

Method(stream, force) == IF force THEN "users_force" ELSE stream

\* ensure_conn(); df = pd.read_sql(query, <read replica>); if df.empty: return
ApiCall(w, stream, force) ==
    /\ version = "api"
    /\ w \in env.workers
    /\ wk[w].pc \in Resting
    /\ stream \in {"users", "txns"} /\ (force => stream = "users")
    /\ Method(stream, force) \in env.run
    /\ \E c \in EnsureConn(conn) :
          \/ /\ c[ReadSlot(stream)] # "open"
             /\ conn' = c
             /\ wk' = ReadFailed(w, stream, force)
             /\ UNCHANGED hist
          \/ /\ c[ReadSlot(stream)] = "open"
             /\ conn' = c
             /\ wk' = Fetched(w, stream, force, Select(stream, force))
             /\ hist' = Reread(stream, force)
          \/ /\ c[ReadSlot(stream)] = "open"
             /\ Fault(stream, "read")
             /\ conn' \in {c, [c EXCEPT ![ReadSlot(stream)] = "closed"]}
             /\ wk' = ReadFailed(w, stream, force)
             /\ UNCHANGED hist
    /\ UNCHANGED <<version, env, users, txns, devices, state, cursor, gnodes, gedges, features>>

\* a call of sync_users(force) or sync_transactions() that is not the start of
\* a queued background task
ApiRead(w, stream, force) ==
    /\ ApiCall(w, stream, force)
    /\ UNCHANGED <<tasks, ran, replies>>

\* session.run(...) of the row at hand; sync_transactions then computes
\* txn_risk and enters the feedback loop when it exceeds the threshold
ApiGraph(w) ==
    /\ version = "api"
    /\ wk[w].pc = "graph"
    /\ \/ LET g == ProjectRow("api", wk[w].stream, [nodes |-> gnodes, edges |-> gedges], Row(w))
          IN  /\ ~Unmappable(wk[w].stream, Row(w))
              /\ gnodes' = g.nodes
              /\ gedges' = g.edges
              /\ wk' = IF wk[w].stream = "users" THEN [wk EXCEPT ![w].pc = "cache"]
                       ELSE IF HighRisk(Row(w)) THEN [wk EXCEPT ![w].pc = "fb_db"]
                       ELSE NextRow(w)
              /\ UNCHANGED hist
       \/ /\ Fault(wk[w].stream, "graph") \/ Unmappable(wk[w].stream, Row(w))
          /\ wk' = Raise(w, "graph")
          /\ hist' = Aborted(w)
          /\ UNCHANGED <<gnodes, gedges>>
    /\ UNCHANGED <<version, env, tasks, ran, replies, users, txns, devices, conn, state, cursor, features>>

\* self.redis_client.set(f"user:{estimated_vpa}:features", json.dumps([norm_risk, kyc_val]))
ApiCacheUser(w) ==
    /\ version = "api"
    /\ wk[w].pc = "cache"
    /\ \/ /\ features' = RedisSet(features, EstimatedVpa(Row(w).phone_number), UserFeatures(Row(w)))
          /\ wk' = NextRow(w)
       \/ /\ Fault(wk[w].stream, "cache")
          /\ wk' = Raise(w, "cache")
          /\ UNCHANGED features
    /\ UNCHANGED <<version, env, tasks, ran, replies, users, txns, devices, conn, state, cursor, gnodes, gedges, hist>>

\* a variant without the inner try: the exception reaches the method's handler
FeedbackFailedRaise(w) == Raise(w, "feedback")

\* the handler of the feedback loop's own try:
\*   except Exception as e: logger.error(f"Feedback Loop Error: {e}")
\* after which the `for` loop goes on with the next row
FeedbackFailed(w) == NextRow(w)

\* with self.gateway_write_conn.cursor() as cursor: cursor.execute(update_sql); commit()
\* An exception is caught by the inner handler and the loop goes on.  A
\* statement that fails leaves the connection in an aborted transaction.
ApiFeedbackDb(w) ==
    /\ version = "api"
    /\ wk[w].pc = "fb_db"
    /\ \/ /\ conn["gateway_write"] = "open"
          /\ users' = RatchetRisk(users, Row(w).payer_vpa, TxnRisk(Row(w)))
          /\ wk' = [wk EXCEPT ![w].pc = "fb_get"]
          /\ UNCHANGED conn
       \/ /\ conn["gateway_write"] # "open"
          /\ wk' = FeedbackFailed(w)
          /\ UNCHANGED <<users, conn>>
       \/ /\ conn["gateway_write"] = "open"
          /\ Fault("txns", "write")
          /\ conn' \in {[conn EXCEPT !["gateway_write"] = x] : x \in {"closed", "aborted"}}
          /\ wk' = FeedbackFailed(w)
          /\ UNCHANGED users
    /\ UNCHANGED <<version, env, tasks, ran, replies, txns, devices, state, cursor, gnodes, gedges, features, hist>>

\* curr = self.redis_client.get(redis_key); kyc = json.loads(curr)[1] if curr else 0.0
ApiFeedbackGet(w) ==
    /\ version = "api"
    /\ wk[w].pc = "fb_get"
    /\ \/ wk' = [wk EXCEPT ![w].pc = "fb_set",
                           ![w].kyc = KeptKyc(RedisGet(features, Row(w).payer_vpa))]
       \/ /\ Fault("txns", "cache")
          /\ wk' = FeedbackFailed(w)
    /\ UNCHANGED <<version, env, tasks, ran, replies, users, txns, devices, conn, state, cursor, gnodes, gedges,
                   features, hist>>

\* self.redis_client.set(redis_key, json.dumps([txn_risk, kyc]))
ApiFeedbackSet(w) ==
    /\ version = "api"
    /\ wk[w].pc = "fb_set"
    /\ \/ /\ features' = RedisSet(features, Row(w).payer_vpa, <<TxnRisk(Row(w)), wk[w].kyc>>)
          /\ wk' = NextRow(w)
       \/ /\ Fault("txns", "cache")
          /\ wk' = FeedbackFailed(w)
          /\ UNCHANGED features
    /\ UNCHANGED <<version, env, tasks, ran, replies, users, txns, devices, conn, state, cursor, gnodes, gedges, hist>>

\* save_state(key, value), first statement: self.state[key] = str(value)
ApiSaveStateMem(w) ==
    /\ version = "api"
    /\ wk[w].pc = "advance"
    /\ state' = [state EXCEPT ![StateKey(wk[w].stream)] = LastTime(w)]
    /\ wk' = [wk EXCEPT ![w].pc = "store"]
    /\ UNCHANGED <<version, env, tasks, ran, replies, users, txns, devices, conn, cursor, gnodes, gedges, features, hist>>

\* save_state(key, value), second statement, inside `try: ... except: pass`:
\* self.redis_client.set(f"sync:{key}", str(value))
ApiSaveStateRedis(w) ==
    /\ version = "api"
    /\ wk[w].pc = "store"
    /\ \/ cursor' = RedisSet(cursor, StateKey(wk[w].stream), LastTime(w))
       \/ /\ Fault(wk[w].stream, "cursor")
          /\ UNCHANGED cursor
    /\ wk' = [wk EXCEPT ![w] = Rest("ok", wk[w].stream)]
    /\ UNCHANGED <<version, env, tasks, ran, replies, users, txns, devices, conn, state, gnodes, gedges, features, hist>>

\* except Exception as e: logger.error(...); self.connect_postgres()
ApiRecover(w) ==
    /\ version = "api"
    /\ wk[w].pc = "recover"
    /\ conn' \in ConnectOutcomes(conn)
    /\ wk' = [wk EXCEPT ![w] = Rest("failed", wk[w].stream)]
    /\ UNCHANGED <<version, env, tasks, ran, replies, users, txns, devices, state, cursor, gnodes, gedges, features, hist>>

------------------------------------------------------------------------------
(* The poller: while True: sync_users(); sync_devices(); sync_transactions(); sleep(2) *)

\* (variant) a loop that only ever calls sync_users
NextStreamUsersOnly(last) == "users"

\* the method the loop calls after `last`
NextStream(last) ==
    CASE last \in {"none", "txns"} -> "users"
      [] last = "users"            -> "devices"
      [] last = "devices"          -> "txns"

\* conn = self.get_rds_connection(db); df = pd.read_sql(query, conn); conn.close();
\* if df.empty: return
PollerRead(w) ==
    /\ version = "poller"
    /\ w \in env.workers
    /\ wk[w].pc \in Resting
    /\ LET stream == NextStream(wk[w].stream)
       IN  \/ /\ wk' = Fetched(w, stream, FALSE, Select(stream, FALSE))
              /\ hist' = Reread(stream, FALSE)
           \/ /\ Fault(stream, "read")
              /\ wk' = ReadFailed(w, stream, FALSE)
              /\ UNCHANGED hist
    /\ UNCHANGED <<version, env, tasks, ran, replies, users, txns, devices, conn, state, cursor, gnodes, gedges, features>>

\* session.run(...) of the row at hand
PollerGraph(w) ==
    /\ version = "poller"
    /\ wk[w].pc = "graph"
    /\ \/ LET g == ProjectRow("poller", wk[w].stream, [nodes |-> gnodes, edges |-> gedges], Row(w))
          IN  /\ ~Unmappable(wk[w].stream, Row(w))
              /\ gnodes' = g.nodes
              /\ gedges' = g.edges
              /\ wk' = NextRow(w)
              /\ UNCHANGED hist
       \/ /\ Fault(wk[w].stream, "graph") \/ Unmappable(wk[w].stream, Row(w))
          /\ wk' = Raise(w, "graph")
          /\ hist' = Aborted(w)
          /\ UNCHANGED <<gnodes, gedges>>
    /\ UNCHANGED <<version, env, tasks, ran, replies, users, txns, devices, conn, state, cursor, features>>

PollerKeys == <<"last_user_time", "last_device_time", "last_txn_time">>

\* save_state() of the poller: three SETs in a try block; the first that
\* raises ends the method.  `k` of them are acknowledged.
SaveStatePoller(cur, st, k) ==
    [key \in DOMAIN cur \cup {PollerKeys[i] : i \in 1..k} |->
        IF \E i \in 1..k : PollerKeys[i] = key THEN st[key] ELSE cur[key]]

\* self.state[<key>] = str(df.iloc[-1][<tcol>]); self.save_state()
PollerAdvance(w) ==
    /\ version = "poller"
    /\ wk[w].pc = "advance"
    /\ state' = [state EXCEPT ![StateKey(wk[w].stream)] = LastTime(w)]
    /\ \E k \in 0..Len(PollerKeys) :
          /\ k < Len(PollerKeys) => Fault(wk[w].stream, "cursor")
          /\ cursor' = SaveStatePoller(cursor, state', k)
    /\ wk' = [wk EXCEPT ![w] = Rest("ok", wk[w].stream)]
    /\ UNCHANGED <<version, env, tasks, ran, replies, users, txns, devices, conn, gnodes, gedges, features, hist>>

------------------------------------------------------------------------------
(* The environment: clients of the relational sources *)

\* created_at / first_seen_at is the insertion time: not older than the newest row
InsertTimes(tbl, tcol) == {t \in Times : Len(tbl) = 0 \/ t >= tbl[Len(tbl)][tcol]}

\* with env.quiet the sources only change between runs
Quiet == env.quiet => \A w \in Workers : wk[w].pc \in Resting

InsertUser ==
    /\ Quiet
    /\ Len(users) < Min(env.maxUsers, Len(UserProfiles))
    /\ \E t \in InsertTimes(users, "created_at"), phone \in UserProfiles[Len(users) + 1].phones :
          users' = Append(users, UserRow(Len(users) + 1, phone, t))
    /\ UNCHANGED <<version, env, tasks, ran, replies, txns, devices, conn, state, cursor, gnodes, gedges, features, wk, hist>>

InsertTxn ==
    /\ Quiet
    /\ Len(txns) < Min(env.maxTxns, Len(TxnProfiles))
    /\ \E t \in InsertTimes(txns, "created_at"), risk \in TxnProfiles[Len(txns) + 1].risks,
          status \in TxnProfiles[Len(txns) + 1].statuses :
          txns' = Append(txns, TxnRow(Len(txns) + 1, risk, status, t))
    /\ UNCHANGED <<version, env, tasks, ran, replies, users, devices, conn, state, cursor, gnodes, gedges, features, wk, hist>>

\* user_devices.user_id references users
InsertDevice ==
    /\ Quiet
    /\ Len(devices) < Min(env.maxDevices, Len(DeviceProfiles))
    /\ DeviceProfiles[Len(devices) + 1].user_id <= Len(users)
    /\ \E t \in InsertTimes(devices, "first_seen_at") :
          devices' = Append(devices, DeviceRow(Len(devices) + 1, t))
    /\ UNCHANGED <<version, env, tasks, ran, replies, users, txns, conn, state, cursor, gnodes, gedges, features, wk, hist>>

------------------------------------------------------------------------------
(* Construction *)

AllFaults(stream) == {<<stream, kind>> : kind \in {"read", "graph", "cache", "cursor", "write"}}

\* The runs that are explored.  Each fixes which service runs, how many rows
\* the sources receive, which methods are called, and which calls can fail.
Environments ==
    {   \* the API service syncing users, every call of the method failing at will
        [version |-> "api", maxUsers |-> 4, maxTxns |-> 0, maxDevices |-> 0,
         run |-> {"users", "users_force"}, faults |-> AllFaults("users"), bad |-> {"gateway_read"},
         quiet |-> FALSE, down |-> {}, workers |-> {"w1"}],
        \* the API service syncing users and transactions, every call of
        \* sync_transactions failing at will
        [version |-> "api", maxUsers |-> 1, maxTxns |-> 2, maxDevices |-> 0,
         run |-> {"users", "txns"}, faults |-> AllFaults("txns"), bad |-> {"switch_read"},
         quiet |-> TRUE, down |-> {}, workers |-> {"w1"}],
        \* the poller, every graph call and the users' read and cursor writes
        \* failing at will
        [version |-> "poller", maxUsers |-> 2, maxTxns |-> 1, maxDevices |-> 1,
         run |-> {"users", "devices", "txns"},
         faults |-> {<<s, "graph">> : s \in Streams} \cup {<<"users", "read">>, <<"users", "cursor">>},
         bad |-> {}, quiet |-> TRUE, down |-> {}, workers |-> {"w1"}]   }

\* load_state() on a reachable Redis: the stored value, or the default
LoadState(ver, cur) ==
    [k \in IF ver = "api" THEN {"last_user_time", "last_txn_time"}
           ELSE {"last_user_time", "last_device_time", "last_txn_time"} |->
        IF RedisGet(cur, k) = <<>> THEN Epoch ELSE RedisGet(cur, k)[1]]

\* GraphSyncService.__init__ on a first run: empty Redis, empty graph, empty sources
InitIn(envs) ==
    /\ env \in envs
    /\ version = env.version
    /\ tasks = <<>>
    /\ ran = <<>>
    /\ replies = <<>>
    /\ users = <<>>
    /\ txns = <<>>
    /\ devices = <<>>
    /\ conn \in IF version = "api" THEN ConnectOutcomes([s \in Slots |-> "none"])
                ELSE {[s \in Slots |-> "none"]}
    /\ cursor = <<>>
    /\ state = LoadState(version, cursor)
    /\ gnodes = <<>>
    /\ gedges = <<>>
    /\ features = <<>>
    /\ wk = [w \in Workers |-> IdleWorker]
    /\ hist = [s \in Streams |-> <<>>]

Init == InitIn(Environments)

Next ==
    \/ InsertUser
    \/ InsertTxn
    \/ InsertDevice
    \/ \E w \in Workers :
          \/ \E stream \in Streams, force \in BOOLEAN : ApiRead(w, stream, force)
          \/ ApiGraph(w)
          \/ ApiCacheUser(w)
          \/ ApiFeedbackDb(w)
          \/ ApiFeedbackGet(w)
          \/ ApiFeedbackSet(w)
          \/ ApiSaveStateMem(w)
          \/ ApiSaveStateRedis(w)
          \/ ApiRecover(w)
          \/ PollerRead(w)
          \/ PollerGraph(w)
          \/ PollerAdvance(w)

Spec == Init /\ [][Next]_vars

------------------------------------------------------------------------------
(* Properties *)

\* the value stored under sync:<key>, <<>> when the key is absent
Stored(key) == RedisGet(cursor, key)

\* C1: cursor monotonicity.  Whatever runs follow one another (successful,
\* empty, failed or force-full), no step lowers a stream's watermark: neither
\* the in-memory value nor the value stored under sync:<key>, and a stored
\* value is never removed.
C1_CursorMonotone ==
    [][ /\ \A k \in DOMAIN state : state'[k] >= state[k]
        /\ \A k \in DOMAIN cursor : k \in DOMAIN cursor' /\ cursor'[k] >= cursor[k] ]_vars

\* a run failed after the users watermark was stored and had advanced past
\* the first timestamp
C1_Witness ==
    /\ \E w \in Workers : wk[w].pc = "failed"
    /\ Stored("last_user_time") # <<>>
    /\ Stored("last_user_time")[1] > 1
    /\ state["last_user_time"] = Stored("last_user_time")[1]

\* timestamp of the last record of the batch worker w holds
BatchEnd(w) == wk[w].batch[Len(wk[w].batch)][TimeCol(wk[w].stream)]

\* the identifiers the API derives for the rows of a users batch
DerivedIds(batch) == {EstimatedVpa(batch[i].phone_number) : i \in 1..Len(batch)}

\* the last row of a users batch with derived identifier v
LastWith(batch, v) ==
    batch[CHOOSE i \in 1..Len(batch) :
             /\ EstimatedVpa(batch[i].phone_number) = v
             /\ \A j \in (i + 1)..Len(batch) : EstimatedVpa(batch[j].phone_number) # v]

\* worker w is about to advance the users watermark from the default epoch
\* over a batch of 3 rows timestamped t1 < t2 < t3, nothing else synced
FromEpoch3(w) ==
    /\ version = "api" /\ wk[w].pc = "advance" /\ wk[w].stream = "users"
    /\ state["last_user_time"] = Epoch /\ txns = <<>>
    /\ Len(wk[w].batch) = 3
    /\ wk[w].batch[1].created_at < wk[w].batch[2].created_at
    /\ wk[w].batch[2].created_at < wk[w].batch[3].created_at

\* the step of w that stores the watermark and ends a run with all of its
\* writes acknowledged
StoreStep(w) ==
    /\ wk[w].pc = (IF version = "api" THEN "store" ELSE "advance")
    /\ wk'[w] # wk[w]

\* the graph holds one UserNode per derived identifier of the batch, and the
\* feature cache one [risk, kyc] entry per UserNode, both as of the last row
\* deriving that identifier
OneNodePerId(nodes, feats, batch) ==
    /\ DOMAIN nodes = {<<"User", "userId", v>> : v \in DerivedIds(batch)}
    /\ DOMAIN feats = DerivedIds(batch)
    /\ CountNodes(nodes, "User") = Cardinality(DerivedIds(batch))
    /\ \A v \in DerivedIds(batch) :
          /\ nodes[<<"User", "userId", v>>].props.kyc = KycVal(LastWith(batch, v))
          /\ nodes[<<"User", "userId", v>>].props.riskScore = NormRisk(LastWith(batch, v))
          /\ feats[v] = UserFeatures(LastWith(batch, v))

InLoop(w) == wk[w].pc \in {"graph", "cache", "fb_db", "fb_get", "fb_set"}

\* the graph write of `row` has been performed: what it MERGEs is there
\* (a device row whose user the MATCH does not find writes nothing)
RowInGraph(stream, row) ==
    CASE version = "api" /\ stream = "users" ->
            MatchNodes(gnodes, "User", "userId", EstimatedVpa(row.phone_number)) # {}
      [] version = "api" /\ stream = "txns" ->
            CountTxnEdges(gedges, "TRANSACTED_WITH", row.global_txn_id) > 0
      [] version = "poller" /\ stream = "users" ->
            MatchNodes(gnodes, "User", "userId", IdString(row.user_id)) # {}
      [] version = "poller" /\ stream = "devices" ->
            \/ MatchNodes(gnodes, "User", "userId", IdString(row.user_id)) = {}
            \/ MatchNodes(gnodes, "Device", "deviceId", row.device_id) # {}
      [] version = "poller" /\ stream = "txns" ->
            CountTxnEdges(gedges, "SENT_MONEY", row.global_txn_id) > 0

\* the feature-cache write of a row has been performed (the API's users rows)
RowInCache(stream, row) ==
    (version = "api" /\ stream = "users") => EstimatedVpa(row.phone_number) \in DOMAIN features

\* the records of w's batch whose graph or cache write is still to come
Pending(w) ==
    {i \in 1..Len(wk[w].batch) :
        \/ i > wk[w].idx
        \/ i = wk[w].idx /\ wk[w].pc \in {"graph", "cache"}}

\* a watermark value covers a record when it is not older than the record
Covers(wm, stream, row) == wm >= row[TimeCol(stream)]

\* no watermark of the stream, in memory or stored, covers a pending record
\* of a non-force batch
NoPendingCovered ==
    \A w \in Workers :
        (InLoop(w) /\ ~wk[w].force) =>
            \A i \in Pending(w) :
                /\ ~Covers(state[StateKey(wk[w].stream)], wk[w].stream, wk[w].batch[i])
                /\ Stored(StateKey(wk[w].stream)) # <<>> =>
                      ~Covers(Stored(StateKey(wk[w].stream))[1], wk[w].stream, wk[w].batch[i])

\* a watermark changes only in the advance step of a worker whose loop has
\* handled every row: each row's graph write and cache write is in place
AdvanceAfterWrites ==
    (state' # state \/ cursor' # cursor) =>
        \E w \in Workers :
            /\ wk[w].pc \in {"advance", "store"}
            /\ wk[w].idx = Len(wk[w].batch)
            /\ \A i \in 1..Len(wk[w].batch) :
                  /\ RowInGraph(wk[w].stream, wk[w].batch[i])
                  /\ RowInCache(wk[w].stream, wk[w].batch[i])

\* C3: within a cycle the cursor-advance step (in memory and in the store)
\* comes after every graph write and every feature-cache write of the batch;
\* no reachable state has a watermark covering a record of the current batch
\* whose graph or cache write is still to come.
C3_AdvanceAfterBatch == []NoPendingCovered /\ [][AdvanceAfterWrites]_vars

\* a users run of the API stands between the cache write of its second row
\* and its third row, the watermark still below both
C3_Witness ==
    \E w \in Workers :
        /\ version = "api" /\ wk[w].stream = "users" /\ ~wk[w].force
        /\ wk[w].pc = "cache" /\ wk[w].idx = 2 /\ Len(wk[w].batch) = 3
        /\ state["last_user_time"] < wk[w].batch[2].created_at

\* the step by which a non-force run of w ends after the graph write of its
\* record wk[w].idx failed: in app.py the except handler's return, in the
\* poller the failing statement itself
GraphFailureEnds(w) ==
    /\ ~wk[w].force
    /\ wk'[w].pc = "failed"
    /\ \/ version = "api" /\ wk[w].pc = "recover" /\ wk[w].why = "graph"
       \/ version = "poller" /\ wk[w].pc = "graph"

\* the watermark value wm stays behind record k of w's batch: at most the
\* timestamp of record k-1 when there is one, and different from the
\* timestamp of record k and of every later record
Behind(wm, w, k) ==
    /\ k > 1 => wm <= wk[w].batch[k - 1][TimeCol(wk[w].stream)]
    /\ \A i \in k..Len(wk[w].batch) : wm # wk[w].batch[i][TimeCol(wk[w].stream)]
    /\ wm < wk[w].batch[k][TimeCol(wk[w].stream)]

\* C4: no advance on failure.  When the graph write of the k-th record of a
\* batch fails, the run ends with the stream's watermark, in memory and in
\* the store, at most the timestamp of record k-1 and never the timestamp of
\* record k or of a later record.
C4_NoAdvanceOnFailure ==
    [][ \A w \in Workers :
          GraphFailureEnds(w) =>
              /\ Behind(state'[StateKey(wk[w].stream)], w, wk[w].idx)
              /\ RedisGet(cursor', StateKey(wk[w].stream)) # <<>> =>
                    Behind(RedisGet(cursor', StateKey(wk[w].stream))[1], w, wk[w].idx)
      ]_vars

\* the graph write of the second record of a transactions batch failed after
\* the watermark had advanced before
C4_Witness ==
    \E w \in Workers :
        /\ version = "api" /\ wk[w].stream = "txns"
        /\ wk[w].pc = "recover" /\ wk[w].why = "graph" /\ wk[w].idx = 2
        /\ Stored("last_user_time") # <<>>

\* p is a prefix of q
IsPrefix(p, q) == Len(p) <= Len(q) /\ SubSeq(q, 1, Len(p)) = p

\* the step in which the graph store fails a non-force run of w
GraphUnreachable(w) ==
    /\ wk[w].pc = "graph" /\ ~wk[w].force
    /\ wk'[w].pc = (IF version = "api" THEN "recover" ELSE "failed")

\* the step in which w reads stream s again after the graph store aborted
\* the last non-force run of s
ReadsAfterAbort(w, s) ==
    /\ hist[s] # <<>> /\ hist'[s] = <<>>
    /\ wk[w].pc \in Resting /\ wk'[w] # wk[w]

\* C5: when the graph store is unreachable during a cycle the cycle aborts
\* with the stream's watermark unchanged (in memory and stored), and the next
\* cycle of the stream reads the aborted batch again: it is not empty, it
\* starts with the same first record and it contains every record of the
\* aborted batch in the same order.
C5_AbortRereads ==
    [][ \A w \in Workers :
          /\ (GraphUnreachable(w) \/ (wk[w].pc = "recover" /\ wk'[w] # wk[w])) =>
                /\ state' = state /\ cursor' = cursor
                /\ wk'[w].pc \in {"recover", "failed"}
          /\ \A s \in Streams :
                ReadsAfterAbort(w, s) =>
                    /\ wk'[w].pc = "graph"
                    /\ RowId(s, wk'[w].batch[1]) = hist[s][1]
                    /\ IsPrefix(hist[s], RowIds(s, wk'[w].batch))
      ]_vars

\* a transactions run of two records was aborted by the graph store and the
\* stream has not been read again
C5_Witness ==
    /\ Len(hist["txns"]) = 2
    /\ \E w \in Workers : wk[w].pc = "failed"
    /\ Len(hist["users"]) = 0

\* the source table of a stream
Table(stream) ==
    CASE stream = "users" -> users [] stream = "txns" -> txns [] stream = "devices" -> devices

\* the streams a service projects
StreamsOf(ver) == IF ver = "api" THEN {"users", "txns"} ELSE Streams

\* the projector applied to any row of the sources, in any order and any
\* number of times: session.run(...) of sync_users, sync_devices and
\* sync_transactions without the readers and cursors around it
Project ==
    /\ \E stream \in StreamsOf(version) : \E row \in Range(Table(stream)) :
          LET g == ProjectRow(version, stream, [nodes |-> gnodes, edges |-> gedges], row)
          IN  gnodes' = g.nodes /\ gedges' = g.edges
    /\ UNCHANGED <<version, env, tasks, ran, replies, users, txns, devices, conn, state, cursor, features, wk, hist>>

\* the Feedback Loop's UPDATE of users, applied for any high-risk row of
\* transactions
Ratchet ==
    /\ version = "api"
    /\ \E row \in Range(txns) :
          /\ HighRisk(row)
          /\ users' = RatchetRisk(users, row.payer_vpa, TxnRisk(row))
    /\ UNCHANGED <<version, env, tasks, ran, replies, txns, devices, conn, state, cursor, gnodes, gedges, features,
                   wk, hist>>

NextProject == InsertUser \/ InsertTxn \/ InsertDevice \/ Project \/ Ratchet

\* the graphs the projector can build from the rows of the sources
SpecProject == Init /\ [][NextProject]_vars

FeedbackCommits(w) == wk[w].pc = "fb_db" /\ wk'[w].pc = "fb_get"

\* the users rows of the payer: those whose derived identifier is payer_vpa
PayerRows(payer_vpa) ==
    {i \in 1..Len(users) : EstimatedVpa(users[i].phone_number) = payer_vpa}

\* C7: ratchet monotonicity.  Whatever Feedback Loop invocations follow one
\* another and in whatever order their risk values come, no step lowers the
\* risk score of a users row, and a committed invocation leaves the payer's
\* risk score at max(previous value, transaction risk * 100).
C7_Ratchet ==
    [][ /\ Len(users') >= Len(users)
        /\ \A i \in 1..Len(users) : users'[i].risk_score >= users[i].risk_score
        /\ \A w \in Workers :
              FeedbackCommits(w) =>
                  \A i \in PayerRows(Row(w).payer_vpa) :
                      users'[i].risk_score = Max(users[i].risk_score, TxnRisk(Row(w)))
      ]_vars

\* the Feedback Loop has just committed for a transaction of risk 0.60 after
\* the payer's score had been raised to 90 by an earlier one: it stays 90
C7_Witness ==
    \E w \in Workers :
        /\ wk[w].pc = "fb_get" /\ TxnRisk(Row(w)) = 60
        /\ PayerRows(Row(w).payer_vpa) # {}
        /\ \A i \in PayerRows(Row(w).payer_vpa) : users[i].risk_score = 90

\* the KYC element of the payer's feature entry, 0 when there is no entry
KycBefore(payer_vpa) ==
    IF payer_vpa \in DOMAIN features THEN features[payer_vpa][2] ELSE 0

\* C8: when the Feedback Loop runs for a transaction of risk r > 0.50 and its
\* cache write is acknowledged, the payer's feature entry has risk element r
\* and the KYC element it had before (0 if there was no entry), and no other
\* entry changes; a write that is not acknowledged leaves the cache as it was.
C8_FeedbackKeepsKyc ==
    [][ \A w \in Workers :
          (wk[w].pc = "fb_set" /\ wk'[w] # wk[w]) =>
              /\ HighRisk(Row(w))
              /\ \/ features' = features
                 \/ /\ DOMAIN features' = DOMAIN features \cup {Row(w).payer_vpa}
                    /\ features'[Row(w).payer_vpa] = <<TxnRisk(Row(w)), KycBefore(Row(w).payer_vpa)>>
                    /\ \A k \in DOMAIN features \ {Row(w).payer_vpa} : features'[k] = features[k]
      ]_vars

\* the payer's entry carries the risk 0.90 of a transaction and the KYC flag
\* 1 the users sync had stored
C8_Witness ==
    /\ <<"7", "@", "okaxis">> \in DOMAIN features
    /\ features[<<"7", "@", "okaxis">>] = <<90, 1>>
    /\ \E i \in 1..Len(txns) : txns[i].payer_vpa = <<"7", "@", "okaxis">> /\ txns[i].ml_fraud_score = 90

\* C9: a force-full resync of Users leaves the Users watermark as it was, in
\* memory and in the cursor store: no step that starts, continues or ends a
\* force run changes either, whatever rows it read and whether it ends well
\* or fails.
C9_ForceKeepsWatermark ==
    [][ (\E w \in Workers : wk[w].force \/ wk'[w].force) =>
            /\ state' = state
            /\ cursor' = cursor
      ]_vars

\* a force run is at the cache write of its last row, and the watermark,
\* stored by an earlier run, differs from that row's timestamp
C9_Witness ==
    \E w \in Workers :
        /\ wk[w].force /\ wk[w].pc = "cache" /\ wk[w].idx = Len(wk[w].batch)
        /\ Stored("last_user_time") # <<>>
        /\ state["last_user_time"] # BatchEnd(w)

\* the step in which a force-full read of users hands a batch to the loop
ForceReads(w) == wk[w].pc \in Resting /\ wk'[w].force /\ wk'[w].pc = "graph"

\* C10 as stated: a force-full resync reads all historical user rows from
\* the beginning, however many there are: the batch it projects holds every
\* row of the source.
C10_AsStated ==
    [][ \A w \in Workers :
          ForceReads(w) => RowIds("users", wk'[w].batch) = RowIds("users", users)
      ]_vars

\* the identifiers (userId) of the UserNodes that a service's sync_users
\* creates for a users row on an empty graph
ProjectedUserIds(ver, row) ==
    LET nodes == ProjectRow(ver, "users", EmptyGraph, row).nodes
    IN  {nodes[k].props.userId : k \in {x \in DOMAIN nodes : x[1] = "User"}}

\* C11 as stated: the identifier under which a users row is projected is the
\* same in the API service's sync_users and in the poller's sync_users.
C11_AsStated ==
    \A row \in Range(users) : ProjectedUserIds("api", row) = ProjectedUserIds("poller", row)

\* Runs of the API service in which the switch database cannot be connected
\* to from the start: on both hosts, or on the replica only.  Only
\* sync_users is called.  In the first the users' own source, the graph store
\* and the cache never fail.
OutageEnvironments ==
    {   [version |-> "api", maxUsers |-> 3, maxTxns |-> 0, maxDevices |-> 0,
         run |-> {"users"}, faults |-> {}, bad |-> {}, quiet |-> FALSE,
         down |-> {"switch_write", "switch_read"}, workers |-> {"w1"}],
        [version |-> "api", maxUsers |-> 3, maxTxns |-> 0, maxDevices |-> 0,
         run |-> {"users"}, faults |-> AllFaults("users"), bad |-> {}, quiet |-> FALSE,
         down |-> {"switch_read"}, workers |-> {"w1"}]   }

NextOutage ==
    \/ InsertUser
    \/ \E w \in Workers :
          \/ ApiRead(w, "users", FALSE)
          \/ ApiGraph(w)
          \/ ApiCacheUser(w)
          \/ ApiSaveStateMem(w)
          \/ ApiSaveStateRedis(w)
          \/ ApiRecover(w)

SpecOutage == InitIn(OutageEnvironments) /\ [][NextOutage]_vars

\* C12 as stated: while the switch database cannot be connected to, a users
\* cycle whose own source, graph store and cache are healthy and that has new
\* rows to read still reads its batch and goes on to project it.
C12_AsStated ==
    [][ \A w \in Workers :
          ( /\ env.faults = {} /\ env.bad = {}
            /\ env.down \subseteq {"switch_write", "switch_read"}
            /\ wk[w].pc \in Resting /\ wk'[w] # wk[w]
            /\ Select("users", FALSE) # <<>> )
          => wk'[w].pc = "graph"
      ]_vars

\* Runs of the API service in which two triggered sync_users tasks can
\* overlap; each call of the method can fail at will.
ReentrantEnvironments ==
    {   [version |-> "api", maxUsers |-> 2, maxTxns |-> 0, maxDevices |-> 0,
         run |-> {"users"}, faults |-> AllFaults("users"), bad |-> {}, quiet |-> FALSE,
         down |-> {}, workers |-> {"w1", "w2"}]   }

SpecReentrant == InitIn(ReentrantEnvironments) /\ [][NextOutage]_vars

\* C13 as stated, first half: when two cycles of the users stream interleave,
\* no step lowers the users watermark, in memory or in the store.
C13_AsStated ==
    [][ /\ state'["last_user_time"] >= state["last_user_time"]
        /\ Stored("last_user_time") # <<>> =>
              /\ RedisGet(cursor', "last_user_time") # <<>>
              /\ RedisGet(cursor', "last_user_time")[1] >= Stored("last_user_time")[1]
      ]_vars


------------------------------------------------------------------------------
(* C14: startup while Redis is unreachable *)

\* The service is started again after an earlier run: the sources, the graph,
\* the feature cache and the stored watermarks are what that run left.
\* env.boot says whether Redis answers while __init__ loads the watermarks.
RestartEnvironments ==
    {   [version |-> ver, maxUsers |-> 3, maxTxns |-> 0, maxDevices |-> 0,
         run |-> {"users"}, faults |-> {<<"users", "graph">>, <<"users", "cursor">>}, bad |-> {},
         quiet |-> FALSE, down |-> {}, workers |-> {"w1"}, boot |-> boot]
        : ver \in {"api", "poller"}, boot \in {"up", "down"}   }

\* the users row the earlier run synced
SyncedUser == UserRow(1, <<"+", "9", "1", "7">>, 1)

\* the watermarks the earlier run stored: sync_users of app.py sets its own
\* key, save_state of the poller sets all three
StoredBefore(ver) ==
    IF ver = "api" THEN RedisSet(<<>>, "last_user_time", SyncedUser.created_at)
    ELSE [k \in {"last_user_time", "last_device_time", "last_txn_time"} |->
            IF k = "last_user_time" THEN SyncedUser.created_at ELSE Epoch]

\* a worker of a process that has ended
Halted == [IdleWorker EXCEPT !.pc = "halted"]

\* GraphSyncService.__init__ up to self.state = self.load_state(), and what
\* becomes of the service.  app.py: redis.Redis(...) does not connect, and
\* load_state catches the error of the first GET and returns
\* {"last_user_time": "2023-01-01", "last_txn_time": "2023-01-01"}, which
\* Postgres compares as midnight of that day; startup() goes on.  Poller:
\* ping() (or load_state) raises, __main__ logs "Fatal Service Error" and the
\* process ends before the loop.
Startup(ver, cur, boot) ==
    CASE boot = "up" -> [state |-> LoadState(ver, cur), worker |-> IdleWorker]
      [] boot = "down" /\ ver = "api" ->
            [state |-> [k \in {"last_user_time", "last_txn_time"} |-> Epoch], worker |-> IdleWorker]
      [] boot = "down" /\ ver = "poller" ->
            [state |-> [k \in {"last_user_time", "last_device_time", "last_txn_time"} |-> Epoch],
             worker |-> Halted]

InitRestart ==
    /\ env \in RestartEnvironments
    /\ version = env.version
    /\ tasks = <<>>
    /\ ran = <<>>
    /\ replies = <<>>
    /\ users = <<SyncedUser>>
    /\ txns = <<>>
    /\ devices = <<>>
    /\ conn \in IF version = "api" THEN ConnectOutcomes([s \in Slots |-> "none"])
                ELSE {[s \in Slots |-> "none"]}
    /\ cursor = StoredBefore(version)
    /\ state = Startup(version, cursor, env.boot).state
    /\ gnodes = ProjectRow(version, "users", EmptyGraph, SyncedUser).nodes
    /\ gedges = ProjectRow(version, "users", EmptyGraph, SyncedUser).edges
    /\ features = IF version = "api"
                  THEN RedisSet(<<>>, EstimatedVpa(SyncedUser.phone_number), UserFeatures(SyncedUser))
                  ELSE <<>>
    /\ wk = [w \in Workers |-> Startup(version, cursor, env.boot).worker]
    /\ hist = [s \in Streams |-> <<>>]

NextRestart ==
    \/ InsertUser
    \/ \E w \in Workers :
          \/ ApiRead(w, "users", FALSE)
          \/ ApiGraph(w)
          \/ ApiCacheUser(w)
          \/ ApiSaveStateMem(w)
          \/ ApiSaveStateRedis(w)
          \/ ApiRecover(w)
          \/ PollerRead(w)
          \/ PollerGraph(w)
          \/ PollerAdvance(w)

SpecRestart == InitRestart /\ [][NextRestart]_vars

\* C14: when Redis is unreachable while the watermarks are loaded at startup,
\* startup fails and no sync cycle ever runs: no worker ever takes a step.
C14_AsStated == [][env.boot = "down" => wk' = wk]_vars


------------------------------------------------------------------------------
(* C15: a failed write of the watermark *)

\* worker w ends save_state in this step and the store does not hold the
\* watermark it was to set: the SET of the stream's key has failed
SetFailed(w) ==
    /\ wk[w].pc = IF version = "api" THEN "store" ELSE "advance"
    /\ wk'[w].pc \in Resting
    /\ RedisGet(cursor', StateKey(wk[w].stream)) # <<LastTime(w)>>

\* C15: a write of the watermark that fails because the store is unreachable
\* fails with an error that reaches the caller: the sync method that called
\* it does not end as a successful run.
C15_AsStated == [][\A w \in Workers : SetFailed(w) => wk'[w].pc = "failed"]_vars


------------------------------------------------------------------------------
(* C16: the connection a reader gets *)

\* worker w begins a run in this step and pd.read_sql raises although the
\* source answers every query (no read fault): the query was run on a
\* connection that ensure_conn() left None or closed
QueryOnDeadSlot(w) ==
    /\ version = "api"
    /\ wk[w].pc \in Resting
    /\ wk'[w].pc = "recover" /\ wk'[w].why = "read"
    /\ ~Fault(wk'[w].stream, "read")
    /\ conn'[ReadSlot(wk'[w].stream)] # "open"

\* C16: acquiring a connection yields an open connection or raises a
\* connectivity error naming the slot; no reader runs its query on an absent
\* or closed connection.
C16_AsStated == [][\A w \in Workers : ~QueryOnDeadSlot(w)]_vars


------------------------------------------------------------------------------
(* C17: a record the graph store rejects *)

\* Transactions only, every store reachable and no call failing at will; the
\* third transaction inserted has a NULL payer_vpa.
MalformedEnvironments ==
    {   [version |-> ver, maxUsers |-> 0, maxTxns |-> 4, maxDevices |-> 0,
         run |-> {"txns"}, faults |-> {}, bad |-> {}, quiet |-> TRUE,
         down |-> {}, workers |-> {"w1"}] : ver \in {"api", "poller"}   }

NextMalformed ==
    \/ InsertTxn
    \/ \E w \in Workers :
          \/ ApiRead(w, "txns", FALSE)
          \/ ApiGraph(w)
          \/ ApiFeedbackDb(w)
          \/ ApiFeedbackGet(w)
          \/ ApiFeedbackSet(w)
          \/ ApiSaveStateMem(w)
          \/ ApiSaveStateRedis(w)
          \/ ApiRecover(w)
          \/ PollerRead(w)
          \/ PollerGraph(w)
          \/ PollerAdvance(w)

SpecMalformed == InitIn(MalformedEnvironments) /\ [][NextMalformed]_vars

\* worker w is at a record that cannot be projected, and steps
AtUnmappable(w) ==
    /\ wk[w].pc = "graph"
    /\ Unmappable(wk[w].stream, Row(w))
    /\ wk'[w] # wk[w]

\* C17: a malformed record is skipped: the run goes on with the next record of
\* the batch, or, after the last one, to advancing the watermark.
C17_AsStated == [][\A w \in Workers : AtUnmappable(w) => wk' = NextRow(w)]_vars


------------------------------------------------------------------------------
(* C18: a failure inside the feedback loop *)

FeedbackPcs == {"fb_db", "fb_get", "fb_set"}

\* a step of worker w inside the feedback loop of a row either goes on with
\* the feedback of the same row or leaves the row as a projected row is left:
\* to the next row of the batch, or after the last row to save_state
FeedbackContained(w) ==
    wk[w].pc \in FeedbackPcs /\ wk'[w] # wk[w] =>
        \/ wk' = NextRow(w)
        \/ /\ wk'[w].pc \in FeedbackPcs
           /\ wk'[w].idx = wk[w].idx /\ wk'[w].batch = wk[w].batch

\* save_state after the loop of sync_transactions sets the watermark to the
\* last record's timestamp
TxnsAdvance(w) ==
    wk[w].pc = "advance" /\ wk[w].stream = "txns" /\ wk'[w] # wk[w] =>
        state'["last_txn_time"] = wk[w].batch[Len(wk[w].batch)].created_at

\* C18: a failure of a feedback step (UPDATE, cache read, cache write) for one
\* transaction does not end the run: the remaining records are still
\* projected and the run reaches save_state, which sets the Transactions
\* watermark to the last record's timestamp.
C18_FeedbackIsolated ==
    [][\A w \in Workers : FeedbackContained(w) /\ TxnsAdvance(w)]_vars

\* a run of sync_transactions is about to save the watermark although the
\* feedback UPDATE of a high-risk record of its batch has not raised the
\* payer's risk_score (the sources are quiet during the run)
C18_Witness ==
    \E w \in Workers :
        /\ version = "api" /\ env.quiet
        /\ wk[w].pc = "advance" /\ wk[w].stream = "txns"
        /\ Len(wk[w].batch) = 2
        /\ HighRisk(wk[w].batch[1])
        /\ users # RatchetRisk(users, wk[w].batch[1].payer_vpa, TxnRisk(wk[w].batch[1]))


------------------------------------------------------------------------------
(* C19: what a pull returns *)

\* the status condition of the stream's query
Settled(ver, stream, row) ==
    stream = "txns" =>
        row.status \in (IF ver = "api" THEN {"SUCCESS", "BLOCKED_FRAUD"} ELSE {"SUCCESS"})

\* the rows of the source that a pull of `stream` is about: those the query's
\* status condition admits and that are newer than the watermark
NewRows(stream) ==
    {r \in Range(Table(stream)) :
        Settled(version, stream, r) /\ r[TimeCol(stream)] > state[StateKey(stream)]}

\* b is a batch of at most BatchLimit of the new rows in ascending order, no
\* new row left out is older than a row of b, and none is left out while b
\* is short of the limit
OldestNew(stream, b) ==
    /\ Len(b) <= BatchLimit
    /\ Range(b) \subseteq NewRows(stream)
    /\ \A i, j \in 1..Len(b) : i < j => b[i][TimeCol(stream)] <= b[j][TimeCol(stream)] /\ b[i] # b[j]
    /\ \A r \in NewRows(stream) \ Range(b) :
          /\ Len(b) = BatchLimit
          /\ \A i \in 1..Len(b) : b[i][TimeCol(stream)] <= r[TimeCol(stream)]

\* C19: the read of a non-force run returns at most the batch limit of
\* records, all strictly newer than the stream's watermark, in ascending
\* timestamp order, and they are the oldest such records of the source.
C19_PullOldest ==
    [][\A w \in Workers :
          wk[w].pc \in Resting /\ wk'[w].pc = "graph" /\ ~wk'[w].force =>
              OldestNew(wk'[w].stream, wk'[w].batch)]_vars

\* a pull that was cut at the limit: a full batch is in the loop and a newer
\* row is still in the source
C19_Witness ==
    \E w \in Workers :
        /\ wk[w].pc = "graph" /\ wk[w].idx = 1 /\ ~wk[w].force
        /\ Len(wk[w].batch) = BatchLimit
        /\ NewRows(wk[w].stream) \ Range(wk[w].batch) # {}


------------------------------------------------------------------------------
(* C20: the trigger endpoints *)

\* how many trigger calls are explored
MaxTriggers == 2

\* POST /sync/users, /sync/transactions, /sync/all
Calls == {"users", "transactions", "all"}

\* the tasks an endpoint adds: background_tasks.add_task(sync_service.<method>, ...)
TasksOf(call) ==
    CASE call = "users"        -> <<[stream |-> "users", force |-> FALSE]>>
      [] call = "transactions" -> <<[stream |-> "txns", force |-> FALSE]>>
      [] call = "all"          -> <<[stream |-> "users", force |-> TRUE],
                                    [stream |-> "txns", force |-> FALSE]>>

\* the response an endpoint returns
Reply(call) == IF call = "all" THEN "Full Sync Initiated" ELSE "Queued"

\* a variant that adds tasks only while none is waiting
EnqueueIfIdle(q, call) == IF q = <<>> THEN TasksOf(call) ELSE q

\* `if sync_service: background_tasks.add_task(...)`; sync_service is set
\* once startup() has run
Enqueue(q, call) == q \o TasksOf(call)

\* an endpoint is called: it adds its tasks and returns its response
Trigger(call) ==
    /\ version = "api"
    /\ Len(replies) < MaxTriggers
    /\ tasks' = Enqueue(tasks, call)
    /\ replies' = Append(replies, [call |-> call, status |-> Reply(call)])
    /\ UNCHANGED <<version, env, ran, users, txns, devices, conn, state, cursor, gnodes, gedges,
                   features, wk, hist>>

\* the server starts the next background task once the response is sent: the
\* call of the sync method, up to its read
TaskRun(w) ==
    /\ tasks # <<>>
    /\ ApiCall(w, Head(tasks).stream, Head(tasks).force)
    /\ tasks' = Tail(tasks)
    /\ ran' = Append(ran, Head(tasks))
    /\ UNCHANGED replies

\* the steps of a run that has started
RunStep(w) ==
    \/ ApiGraph(w)
    \/ ApiCacheUser(w)
    \/ ApiFeedbackDb(w)
    \/ ApiFeedbackGet(w)
    \/ ApiFeedbackSet(w)
    \/ ApiSaveStateMem(w)
    \/ ApiSaveStateRedis(w)
    \/ ApiRecover(w)

\* The service has started on sources that hold one user and one high-risk
\* transaction of that user, not yet synced; graph calls and the feedback
\* UPDATE fail at will.
TriggerEnvironments ==
    {   [version |-> "api", maxUsers |-> 1, maxTxns |-> 1, maxDevices |-> 0,
         run |-> {"users", "users_force", "txns"},
         faults |-> {<<"users", "graph">>, <<"txns", "graph">>, <<"txns", "write">>},
         bad |-> {}, quiet |-> TRUE, down |-> {}, workers |-> {"w1"}]   }

InitTrigger ==
    /\ env \in TriggerEnvironments
    /\ version = env.version
    /\ tasks = <<>>
    /\ ran = <<>>
    /\ replies = <<>>
    /\ users = <<SyncedUser>>
    /\ txns = <<TxnRow(1, 90, "SUCCESS", 1)>>
    /\ devices = <<>>
    /\ conn \in ConnectOutcomes([s \in Slots |-> "none"])
    /\ cursor = <<>>
    /\ state = LoadState(version, cursor)
    /\ gnodes = <<>>
    /\ gedges = <<>>
    /\ features = <<>>
    /\ wk = [w \in Workers |-> IdleWorker]
    /\ hist = [s \in Streams |-> <<>>]

NextTrigger ==
    \/ \E call \in Calls : Trigger(call)
    \/ \E w \in Workers :
          \/ TaskRun(w)
          \/ ApiGraph(w)
          \/ ApiCacheUser(w)
          \/ ApiFeedbackDb(w)
          \/ ApiFeedbackGet(w)
          \/ ApiFeedbackSet(w)
          \/ ApiSaveStateMem(w)
          \/ ApiSaveStateRedis(w)
          \/ ApiRecover(w)

\* the server process keeps running: a task that can start does start, and a
\* run that has started takes its steps
SpecTrigger ==
    /\ InitTrigger
    /\ [][NextTrigger]_vars
    /\ \A w \in Workers : WF_vars(TaskRun(w)) /\ WF_vars(RunStep(w))

RECURSIVE Accepted(_)
\* the tasks of the trigger calls answered so far, in order
Accepted(rs) ==
    IF rs = <<>> THEN <<>>
    ELSE Accepted(SubSeq(rs, 1, Len(rs) - 1)) \o TasksOf(rs[Len(rs)].call)

\* every response is the endpoint's accepted response, and the tasks of the
\* answered calls are exactly those started or waiting, in order
AcceptedQueued ==
    /\ \A i \in 1..Len(replies) :
          replies[i].status = IF replies[i].call = "all" THEN "Full Sync Initiated" ELSE "Queued"
    /\ ran \o tasks = Accepted(replies)

\* a call returns without running the task: the step that answers leaves the
\* workers, the graph, the cache and the watermarks as they are; and no later
\* step changes a response
ReturnsAtOnce ==
    /\ replies' # replies => UNCHANGED <<wk, ran, gnodes, gedges, features, state, cursor>>
    /\ IsPrefix(replies, replies')

\* C20: a trigger call adds a one-shot run of its cycle to the background
\* tasks and returns its accepted response without waiting for the run; the
\* response does not depend on how the run ends; and every accepted task is
\* eventually started.
C20_TriggerQueuesRun ==
    /\ []AcceptedQueued
    /\ [][ReturnsAtOnce]_vars
    /\ \A n \in 1..(2 * MaxTriggers) : (Len(Accepted(replies)) >= n) ~> (Len(ran) >= n)

\* both tasks of a full sync have been started, the second has failed, and
\* the response stands
C20_Witness ==
    /\ replies = <<[call |-> "all", status |-> "Full Sync Initiated"]>>
    /\ ran = TasksOf("all") /\ tasks = <<>>
    /\ \E w \in Workers : wk[w].pc = "failed"


------------------------------------------------------------------------------
(* C21: a transaction projected again with another value *)

\* the owner of switch_db.transactions writes another ml_fraud_score into a
\* row (a transaction is scored again); the row keeps its id and timestamp
RescoreTxn ==
    /\ \E i \in 1..Len(txns) : \E risk \in TxnProfiles[i].risks \ {txns[i].ml_fraud_score} :
          txns' = [txns EXCEPT ![i].ml_fraud_score = risk]
    /\ UNCHANGED <<version, env, tasks, ran, replies, users, devices, conn, state, cursor, gnodes, gedges,
                   features, wk, hist>>

NextReproject == InsertTxn \/ RescoreTxn \/ Project

\* the graphs the projector can build when rows of transactions change
\* between two projections
SpecReproject == Init /\ [][NextReproject]_vars

\* the relationship type of a money transfer
TransferType(ver) == IF ver = "api" THEN "TRANSACTED_WITH" ELSE "SENT_MONEY"

\* C21: the money-transfer edge is keyed by txnId: no graph holds two
\* transfer edges with the same txnId, also after a transaction was
\* projected again with another risk value.
C21_AsStated ==
    \A i \in 1..Len(txns) :
        CountTxnEdges(gedges, TransferType(version), txns[i].global_txn_id) <= 1


------------------------------------------------------------------------------
(* C22: the threshold of the feedback loop *)

\* worker w of sync_transactions takes a step at a row whose risk is at most
\* the threshold, or missing
AtLowRisk(w) ==
    /\ version = "api" /\ wk[w].stream = "txns"
    /\ wk[w].pc \in {"graph"} \cup FeedbackPcs
    /\ Row(w).ml_fraud_score = NoRisk \/ Row(w).ml_fraud_score <= RiskThreshold
    /\ wk'[w] # wk[w]

------------------------------------------------------------------------------
(* C23: a pull that finds nothing new *)

\* worker w has read and found nothing: `if df.empty: return`
EmptyPull(w) == wk[w].pc \in Resting /\ wk'[w].pc = "empty"

\* the rows of the relational sources are as they were; rows may have been added
SourcesKept ==
    IsPrefix(users, users') /\ IsPrefix(txns, txns') /\ IsPrefix(devices, devices')

\* C23: a pull that finds nothing newer than the watermark ends the cycle
\* without error and leaves the watermark (in memory and stored), the graph,
\* the feature cache and the rows of the relational sources unchanged; and a
\* pull hands a batch to the loop only when the source holds something newer
\* than the watermark.
C23_EmptyPull ==
    [][\A w \in Workers :
          /\ EmptyPull(w) => UNCHANGED <<state, cursor, gnodes, gedges, features>> /\ SourcesKept
          /\ wk[w].pc \in Resting /\ wk'[w].pc = "graph" /\ ~wk'[w].force
                => NewRows(wk'[w].stream) # {}]_vars

\* a stream that was synced before is read again and nothing is new
C23_Witness ==
    \E w \in Workers :
        /\ wk[w].pc = "empty"
        /\ \E s \in Streams : Table(s) # <<>> /\ NewRows(s) = {}
                                /\ state[StateKey(s)] > Epoch /\ (version = "poller" => wk[w].stream = s)
        /\ gnodes # <<>>


------------------------------------------------------------------------------
(* C24: the cycle after a failed write of the watermark *)

\* worker w begins a non-force run that reads from a watermark other than
\* the stored one (the default when none is stored)
ReadsPastStored(w) ==
    /\ wk[w].pc \in Resting /\ wk'[w].pc = "graph" /\ ~wk'[w].force
    /\ state[StateKey(wk'[w].stream)] # LoadState(version, cursor)[StateKey(wk'[w].stream)]

\* C24: a failed write of the watermark at the end of a cycle is skipped, and
\* the next cycle of the stream repeats the work: it reads from the watermark
\* that is stored, the one the failed write did not replace.
C24_AsStated == [][\A w \in Workers : ~ReadsPastStored(w)]_vars


------------------------------------------------------------------------------
(* C25: a read that fails *)

\* the read of worker w fails in this step
ReadFails(w) ==
    /\ wk[w].pc \in Resting /\ wk'[w] # wk[w]
    /\ \/ wk'[w].pc = "recover" /\ wk'[w].why = "read"
       \/ version = "poller" /\ wk'[w].pc = "failed"

\* worker w leaves the except handler of a run whose read failed
HandlesReadFailure(w) ==
    wk[w].pc = "recover" /\ wk[w].why = "read" /\ wk'[w] # wk[w]

\* the servers that can refuse a connect
CanRefuse == (env.bad \cup env.down) \cap Slots

\* every slot is connected, up to the first one whose server can refuse
ConnectedUpToRefusal(c) ==
    \A s \in Slots : NeedsConnect(c, s) => \E t \in CanRefuse : SlotIndex(t) <= SlotIndex(s)

\* C25: a read that fails leaves the watermark as it is, in memory and stored,
\* and before the stream is read again a reconnect of the relational
\* connections is attempted: the run ends through connect_postgres(), after
\* which no slot is left None or closed unless a connect was refused.
C25_ReadFailure ==
    [][\A w \in Workers :
          /\ ReadFails(w) => UNCHANGED <<state, cursor>>
          /\ HandlesReadFailure(w) =>
                /\ UNCHANGED <<state, cursor>>
                /\ wk'[w].pc = "failed"
                /\ ConnectedUpToRefusal(conn')]_vars

\* a read of a stream that was synced before has lost its connection
C25_Witness ==
    \E w \in Workers :
        /\ wk[w].pc = "recover" /\ wk[w].why = "read"
        /\ conn[ReadSlot(wk[w].stream)] = "closed"
        /\ state[StateKey(wk[w].stream)] > Epoch


------------------------------------------------------------------------------
(* C26: connect_postgres() called by overlapping runs *)

\* Two background tasks of app.py; the server of any slot may drop a
\* connection, and the server of gateway_read may refuse a connect.
ReconnectEnvironments ==
    {   [version |-> "api", maxUsers |-> 0, maxTxns |-> 0, maxDevices |-> 0,
         run |-> {"users", "txns"}, faults |-> {}, bad |-> {"gateway_read"}, quiet |-> FALSE,
         down |-> {}, workers |-> {"w1", "w2"}]   }

\* worker w inside connect_postgres(): at the `if` of slot SlotOrder[i]
\* ("probe"), or inside psycopg2.connect(...) for it ("connect")
InConnect(w, pc, i) == [wk EXCEPT ![w] = [IdleWorker EXCEPT !.pc = pc, !.idx = i]]

\* connect_postgres() is called: by ensure_conn() at the start of a run, or by
\* the except handler of a run
ConnectCall(w) ==
    /\ version = "api" /\ w \in env.workers
    /\ wk[w].pc = "idle"
    /\ wk' = InConnect(w, "probe", 1)
    /\ UNCHANGED <<version, env, tasks, ran, replies, users, txns, devices, conn, state, cursor, gnodes,
                   gedges, features, hist>>

\* `if not self.x_conn or self.x_conn.closed:` for the slot at hand; after the
\* last slot the method returns
ConnectProbe(w) ==
    /\ wk[w].pc = "probe"
    /\ wk' = IF NeedsConnect(conn, SlotOrder[wk[w].idx]) THEN InConnect(w, "connect", wk[w].idx)
             ELSE IF wk[w].idx < Len(SlotOrder) THEN InConnect(w, "probe", wk[w].idx + 1)
             ELSE [wk EXCEPT ![w] = IdleWorker]
    /\ UNCHANGED <<version, env, tasks, ran, replies, users, txns, devices, conn, state, cursor, gnodes,
                   gedges, features, hist>>

\* `self.x_conn = psycopg2.connect(...)` returns and the new connection is
\* assigned to the slot; or the connect raises, which ends the method
ConnectInstall(w) ==
    /\ wk[w].pc = "connect"
    /\ \/ /\ conn' = [conn EXCEPT ![SlotOrder[wk[w].idx]] = "open"]
          /\ wk' = IF wk[w].idx < Len(SlotOrder) THEN InConnect(w, "probe", wk[w].idx + 1)
                   ELSE [wk EXCEPT ![w] = IdleWorker]
       \/ /\ SlotOrder[wk[w].idx] \in env.bad
          /\ wk' = [wk EXCEPT ![w] = IdleWorker]
          /\ UNCHANGED conn
    /\ UNCHANGED <<version, env, tasks, ran, replies, users, txns, devices, state, cursor, gnodes,
                   gedges, features, hist>>

\* a server or the network drops an open connection
LoseConnection ==
    /\ \E s \in Slots : conn[s] = "open" /\ conn' = [conn EXCEPT ![s] = "closed"]
    /\ UNCHANGED <<version, env, tasks, ran, replies, users, txns, devices, state, cursor, gnodes,
                   gedges, features, wk, hist>>

NextReconnect ==
    \/ LoseConnection
    \/ \E w \in Workers :
          \/ ConnectCall(w)
          \/ ConnectProbe(w)
          \/ ConnectInstall(w)

SpecReconnect == InitIn(ReconnectEnvironments) /\ [][NextReconnect]_vars

\* the workers that are inside psycopg2.connect for slot s
Connecting(s) == {w \in Workers : wk[w].pc = "connect" /\ SlotOrder[wk[w].idx] = s}

\* a step that assigns a new connection to a slot that holds an open one
Overwrites ==
    \E w \in Workers, s \in Slots :
        /\ w \in Connecting(s) /\ wk'[w] # wk[w]
        /\ conn[s] = "open" /\ conn'[s] = "open"

\* C26: reconnects of one slot are serialized: at any time at most one
\* reconnect of a slot is in progress, and no new connection is assigned to a
\* slot over one that another reconnect has just installed.
C26_AsStated ==
    /\ [](\A s \in Slots : Cardinality(Connecting(s)) <= 1)
    /\ [][~Overwrites]_vars


------------------------------------------------------------------------------
(* C27: reset_redis.py *)

\* the users stream of either service, graph calls failing at will, and an
\* administrator who may run reset_redis.py at any time
ResetEnvironments ==
    {   [version |-> ver, maxUsers |-> 2, maxTxns |-> 0, maxDevices |-> 0,
         run |-> {"users"}, faults |-> {<<"users", "graph">>}, bad |-> {}, quiet |-> FALSE,
         down |-> {}, workers |-> {"w1"}] : ver \in {"api", "poller"}   }

\* r.delete(key)
RedisDelete(store, key) == [k \in DOMAIN store \ {key} |-> store[k]]

\* reset_redis.py: r.delete("sync:last_user_time"); r.delete("sync:last_txn_time")
AdminReset ==
    /\ cursor' = RedisDelete(RedisDelete(cursor, "last_user_time"), "last_txn_time")
    /\ cursor' # cursor
    /\ UNCHANGED <<version, env, tasks, ran, replies, users, txns, devices, conn, state, gnodes, gedges,
                   features, wk, hist>>

NextReset == AdminReset \/ NextRestart

SpecReset == InitIn(ResetEnvironments) /\ [][NextReset]_vars

\* worker w begins a non-force run of a stream whose key is not stored, from
\* a watermark other than the default
ReadsPastReset(w) ==
    /\ wk[w].pc \in Resting /\ wk'[w].pc = "graph" /\ ~wk'[w].force
    /\ Stored(StateKey(wk'[w].stream)) = <<>>
    /\ state[StateKey(wk'[w].stream)] # Epoch

\* C27: after the stream's key was deleted, the next cycle of the stream
\* reads from the default epoch (a full re-read); no cycle goes on from a
\* watermark taken before the reset.
C27_AsStated == [][\A w \in Workers : ~ReadsPastReset(w)]_vars


------------------------------------------------------------------------------
(* C28: feature vectors and their nodes *)

\* the graph holds a User node whose userId is `id`
HasUserNode(nodes, id) == MatchNodes(nodes, "User", "userId", id) # {}

\* the cache keys whose entry this step writes or rewrites
Written ==
    {k \in DOMAIN features' : k \notin DOMAIN features \/ features'[k] # features[k]}

\* C28: the feature vector is written after the graph node exists: every
\* entry of the feature cache has a User node with the same identifier in the
\* graph, and every write of an entry finds that node already there.
C28_FeatureAfterNode ==
    /\ [](\A k \in DOMAIN features : HasUserNode(gnodes, k))
    /\ [][\A k \in Written : HasUserNode(gnodes, k)]_vars

\* the cache holds an entry written by a user projection and an entry
\* written by the feedback loop
C28_Witness ==
    /\ \E i \in 1..Len(users) :
          /\ EstimatedVpa(users[i].phone_number) \in DOMAIN features
          /\ features[EstimatedVpa(users[i].phone_number)] = UserFeatures(users[i])
    /\ \E i \in 1..Len(txns) :
          /\ txns[i].payer_vpa \in DOMAIN features
          /\ features[txns[i].payer_vpa][1] = TxnRisk(txns[i])


------------------------------------------------------------------------------
(* C29: the cycle of a stream *)

\* the phase of a worker.  READING is the read step itself, which takes a
\* worker from IDLE to PROJECTING (rows found) or back to IDLE (none, or the
\* read failed); HANDLING is the except handler of app.py, on the way to IDLE.
Phase(pc) ==
    CASE pc \in Resting -> "IDLE"
      [] pc \in {"graph", "cache", "fb_db", "fb_get", "fb_set"} -> "PROJECTING"
      [] pc \in {"advance", "store"} -> "ADVANCING"
      [] pc = "recover" -> "HANDLING"
      [] OTHER -> "STOPPED"

\* the moves of the state machine
PhaseMoves ==
    {<<"IDLE", "IDLE">>, <<"IDLE", "PROJECTING">>, <<"IDLE", "HANDLING">>,
     <<"PROJECTING", "PROJECTING">>, <<"PROJECTING", "ADVANCING">>, <<"PROJECTING", "IDLE">>,
     <<"PROJECTING", "HANDLING">>, <<"ADVANCING", "ADVANCING">>, <<"ADVANCING", "IDLE">>,
     <<"HANDLING", "IDLE">>}

\* worker w enters ADVANCING: from PROJECTING, at the last row of its batch,
\* with the graph write of every row of the batch done
EntersAdvancing(w) ==
    Phase(wk[w].pc) # "ADVANCING" /\ Phase(wk'[w].pc) = "ADVANCING" =>
        /\ Phase(wk[w].pc) = "PROJECTING"
        /\ wk[w].idx = Len(wk[w].batch) /\ wk'[w].batch = wk[w].batch
        /\ \A i \in 1..Len(wk[w].batch) : RowInGraph(wk[w].stream, wk[w].batch[i])'

\* a failure of worker w: the run ends as failed, directly or through the
\* handler, and the step leaves the watermark as it is
FailureToIdle(w) ==
    /\ wk'[w] # wk[w] /\ wk'[w].pc \in {"failed", "recover"} =>
          Phase(wk[w].pc) \in {"IDLE", "PROJECTING", "HANDLING"} /\ UNCHANGED <<state, cursor>>
    /\ wk[w].pc = "recover" /\ wk'[w] # wk[w] => wk'[w].pc = "failed"

\* the scheduler is the `while True` loop of the poller (app.py has none: its
\* runs are started by the trigger endpoints).  Whatever the outcome of the
\* last method, the loop can call the next one.
CanStart(w) == version = "poller" => ENABLED PollerRead(w)

\* C29: each cycle follows IDLE -> READING -> PROJECTING -> ADVANCING -> IDLE:
\* ADVANCING is entered only from PROJECTING and only after every write of
\* the batch, a failure while reading or projecting returns to IDLE without
\* ADVANCING, and after any outcome the next cycle can start.
C29_CycleStateMachine ==
    /\ [][\A w \in Workers :
            /\ wk'[w] # wk[w] => <<Phase(wk[w].pc), Phase(wk'[w].pc)>> \in PhaseMoves
            /\ EntersAdvancing(w)
            /\ FailureToIdle(w)]_vars
    /\ [](\A w \in env.workers : Phase(wk[w].pc) = "IDLE" => CanStart(w))

\* the loop of the poller has come to sync_devices() after a run of
\* sync_users() that failed, and is about to advance the devices watermark
C29_Witness ==
    \E w \in Workers :
        /\ version = "poller" /\ wk[w].stream = "devices" /\ wk[w].pc = "advance"
        /\ hist["users"] # <<>>



------------------------------------------------------------------------------
(* C30: the status of a projected transaction *)

\* the statuses the two queries name, and two the queries do not name
SettledOrBlocked == {"SUCCESS", "BLOCKED_FRAUD"}

OtherStatuses == {"PENDING", "FAILED"}

\* the owner of switch_db.transactions inserts a row in any status
InsertTxnAnyStatus ==
    /\ Len(txns) < Min(env.maxTxns, Len(TxnProfiles))
    /\ \E t \in InsertTimes(txns, "created_at"), risk \in TxnProfiles[Len(txns) + 1].risks,
          status \in SettledOrBlocked \cup OtherStatuses :
          txns' = Append(txns, TxnRow(Len(txns) + 1, risk, status, t))
    /\ UNCHANGED <<version, env, tasks, ran, replies, users, devices, conn, state, cursor, gnodes, gedges,
                   features, wk, hist>>

\* and decides a pending row: the status column changes, at any moment of a
\* cycle; a decided row keeps its status
SettleTxn ==
    /\ \E i \in 1..Len(txns) : \E status \in SettledOrBlocked \cup {"FAILED"} :
          /\ txns[i].status = "PENDING"
          /\ txns' = [txns EXCEPT ![i].status = status]
    /\ UNCHANGED <<version, env, tasks, ran, replies, users, devices, conn, state, cursor, gnodes, gedges,
                   features, wk, hist>>

\* Transactions only, in both versions; the graph call fails at will
StatusEnvironments ==
    {   [version |-> ver, maxUsers |-> 0, maxTxns |-> 2, maxDevices |-> 0,
         run |-> {"txns"}, faults |-> {<<"txns", "graph">>}, bad |-> {}, quiet |-> FALSE,
         down |-> {}, workers |-> {"w1"}] : ver \in {"api", "poller"}   }

NextStatus ==
    \/ InsertTxnAnyStatus
    \/ SettleTxn
    \/ \E w \in Workers :
          \/ ApiRead(w, "txns", FALSE)
          \/ ApiGraph(w)
          \/ ApiFeedbackDb(w)
          \/ ApiFeedbackGet(w)
          \/ ApiFeedbackSet(w)
          \/ ApiSaveStateMem(w)
          \/ ApiSaveStateRedis(w)
          \/ ApiRecover(w)
          \/ PollerRead(w)
          \/ PollerGraph(w)
          \/ PollerAdvance(w)

SpecStatus == InitIn(StatusEnvironments) /\ [][NextStatus]_vars

\* the rows worker w holds, as they were read
BatchRows(w) == {wk[w].batch[i] : i \in 1..Len(wk[w].batch)}

\* a transfer edge of transaction tid is written in this step
EdgeWritten(tid) ==
    CountTxnEdges(gedges', TransferType(version), tid) > CountTxnEdges(gedges, TransferType(version), tid)

\* C30: only transactions with a settled or blocked status are projected:
\* every row of a batch of the transactions stream had status SUCCESS or
\* BLOCKED_FRAUD when it was read; a money-transfer edge is written only for
\* such a row of the batch, the feedback loop runs only on such a row, and in
\* every graph the transaction of a money-transfer edge is settled or blocked.
C30_OnlySettledProjected ==
    /\ [](\A w \in Workers : wk[w].stream = "txns" =>
              \A row \in BatchRows(w) : row.status \in SettledOrBlocked)
    /\ [](\A w \in Workers : wk[w].pc \in FeedbackPcs => Row(w).status \in SettledOrBlocked)
    /\ [][\A i \in 1..Len(txns) :
              EdgeWritten(txns[i].global_txn_id) =>
                  \E w \in Workers :
                      /\ wk[w].pc = "graph" /\ wk[w].stream = "txns"
                      /\ Row(w).global_txn_id = txns[i].global_txn_id
                      /\ Row(w).status \in SettledOrBlocked]_vars
    /\ [](\A i \in 1..Len(txns) :
              CountTxnEdges(gedges, TransferType(version), txns[i].global_txn_id) > 0 =>
                  txns[i].status \in SettledOrBlocked)

\* a cycle is over and the cursor has passed two rows: the settled one has
\* its edge, the other, still in another status, has none
C30_Witness ==
    /\ Len(txns) = 2
    /\ \A w \in Workers : wk[w].pc \in Resting
    /\ \E i, j \in 1..2 :
          /\ txns[i].status \in OtherStatuses
          /\ CountTxnEdges(gedges, TransferType(version), txns[i].global_txn_id) = 0
          /\ txns[j].status \in SettledOrBlocked
          /\ CountTxnEdges(gedges, TransferType(version), txns[j].global_txn_id) = 1
          /\ state["last_txn_time"] >= txns[i].created_at



------------------------------------------------------------------------------
(* C31: a feedback loop and a user projection on one feature-cache key *)

\* Two background tasks of app.py, one in sync_users and one in
\* sync_transactions, every store reachable and no call failing at will; the
\* payer of the transaction is the user of the users row
LostUpdateEnvironments ==
    {   [version |-> "api", maxUsers |-> 1, maxTxns |-> 1, maxDevices |-> 0,
         run |-> {"users", "txns"}, faults |-> {}, bad |-> {}, quiet |-> FALSE,
         down |-> {}, workers |-> {"w1", "w2"}]   }

NextLostUpdate ==
    \/ InsertUser
    \/ InsertTxn
    \/ \E w \in Workers :
          \/ ApiRead(w, "users", FALSE)
          \/ ApiRead(w, "txns", FALSE)
          \/ ApiGraph(w)
          \/ ApiCacheUser(w)
          \/ ApiFeedbackDb(w)
          \/ ApiFeedbackGet(w)
          \/ ApiFeedbackSet(w)
          \/ ApiSaveStateMem(w)
          \/ ApiSaveStateRedis(w)

SpecLostUpdate == InitIn(LostUpdateEnvironments) /\ [][NextLostUpdate]_vars

\* the feedback loop of worker w writes its entry in this step
FeedbackWrites(w) ==
    /\ wk[w].pc = "fb_set"
    /\ wk'[w].pc # "fb_set"
    /\ Row(w).payer_vpa \in DOMAIN features'

\* C31: no lost update on a feature-cache key: the KYC element the feedback
\* loop writes back is the one the entry holds at the moment of the write (it
\* never writes back a value it read before a user projection's write), and
\* every stored value is a 2-element [risk, kyc] list.
C31_AsStated ==
    /\ [][\A w \in Workers :
              FeedbackWrites(w) => wk[w].kyc = KeptKyc(RedisGet(features, Row(w).payer_vpa))]_vars
    /\ [](\A k \in DOMAIN features : Len(features[k]) = 2)



------------------------------------------------------------------------------
(* C32: the graph operations of a device record *)

\* The poller with every store reachable and no call failing at will; rows
\* are inserted between two methods of the loop
DeviceEnvironments ==
    {   [version |-> "poller", maxUsers |-> 1, maxTxns |-> 0, maxDevices |-> 1,
         run |-> {"users", "devices", "txns"}, faults |-> {}, bad |-> {}, quiet |-> TRUE,
         down |-> {}, workers |-> {"w1"}]   }

NextDevices ==
    \/ InsertUser
    \/ InsertDevice
    \/ \E w \in Workers :
          \/ PollerRead(w)
          \/ PollerGraph(w)
          \/ PollerAdvance(w)

SpecDevices == InitIn(DeviceEnvironments) /\ [][NextDevices]_vars

\* what the statement of sync_devices writes for a row when all of its
\* clauses take effect
DeviceInGraph(row) ==
    LET U == MatchNodes(gnodes, "User", "userId", IdString(row.user_id))
        D == MatchNodes(gnodes, "Device", "deviceId", row.device_id)
        I == MatchNodes(gnodes, "IP", "address", row.last_login_ip)
    IN  /\ D # {} /\ I # {}
        /\ \E u \in U, d \in D : \E e \in DOMAIN gedges : e[1] = "USED_DEVICE" /\ e[2] = u /\ e[3] = d
        /\ \E u \in U, i \in I : \E e \in DOMAIN gedges : e[1] = "HAS_IP" /\ e[2] = u /\ e[3] = i

\* C32: the graph operations of a device record take effect as a unit: once
\* the devices watermark has passed a device record, the graph holds its
\* Device node, its IP node and the USED_DEVICE and HAS_IP edges from the
\* owner's User node, also when the owner was not yet projected when the
\* record was processed.
C32_AsStated ==
    version = "poller" =>
        \A i \in 1..Len(devices) :
            devices[i].first_seen_at <= state["last_device_time"] => DeviceInGraph(devices[i])



------------------------------------------------------------------------------
(* C33: records at or below the watermark *)

\* the eligible rows of a stream the watermark has passed
Passed(stream) ==
    {r \in Range(Table(stream)) :
        /\ Settled(version, stream, r)
        /\ r[TimeCol(stream)] > Epoch
        /\ r[TimeCol(stream)] <= state[StateKey(stream)]}

\* C33: no record is skipped: whenever no cycle is running, every eligible
\* source record newer than the initial watermark and not newer than the
\* stream's current watermark has been projected to the graph, also the
\* records that share the timestamp of the last record of a batch cut off by
\* the batch limit.
C33_AsStated ==
    (\A w \in Workers : wk[w].pc \in Resting) =>
        \A stream \in StreamsOf(version) : \A r \in Passed(stream) : RowInGraph(stream, r)



------------------------------------------------------------------------------
(* C34: the risk element of a feature-cache entry *)

\* C34: the risk element of a user's feature-cache entry is ratcheted like
\* the relational score: no write of the feedback loop lowers the risk
\* element of the payer's entry.
C34_AsStated ==
    [][\A w \in Workers :
          (FeedbackWrites(w) /\ Row(w).payer_vpa \in DOMAIN features) =>
              features'[Row(w).payer_vpa][1] >= features[Row(w).payer_vpa][1]]_vars



------------------------------------------------------------------------------
(* C35: the rows the feedback loop's UPDATE changes *)

\* app.py running both streams one after the other, every store reachable
\* and no call failing at will; two users rows
FeedbackEnvironments ==
    {   [version |-> "api", maxUsers |-> 2, maxTxns |-> 2, maxDevices |-> 0,
         run |-> {"users", "txns"}, faults |-> {}, bad |-> {}, quiet |-> TRUE,
         down |-> {}, workers |-> {"w1"}]   }

SpecFeedback == InitIn(FeedbackEnvironments) /\ [][NextLostUpdate]_vars

\* the users rows of a payer: those the projection function maps to its
\* unified identifier
RowsOf(payer_vpa) == {i \in 1..Len(users) : EstimatedVpa(users[i].phone_number) = payer_vpa}

\* C35: a feedback loop invocation for a payer changes the relational risk
\* score of that payer's users row only: the UPDATE raises the score of the
\* payer's rows and leaves the risk score of every other users row unchanged.
C35_AsStated ==
    [][\A w \in Workers :
          (wk[w].pc = "fb_db" /\ wk'[w].pc = "fb_get") =>
              \A i \in 1..Len(users) :
                  IF i \in RowsOf(Row(w).payer_vpa)
                  THEN users'[i].risk_score = Max(users[i].risk_score, TxnRisk(Row(w)))
                  ELSE users'[i].risk_score = users[i].risk_score]_vars



------------------------------------------------------------------------------
(* C36: transactions decided after the watermark passed them *)

\* Transactions only, in both versions, every store reachable and no call
\* failing at will
LateEnvironments ==
    {   [version |-> ver, maxUsers |-> 0, maxTxns |-> 2, maxDevices |-> 0,
         run |-> {"txns"}, faults |-> {}, bad |-> {}, quiet |-> FALSE,
         down |-> {}, workers |-> {"w1"}] : ver \in {"api", "poller"}   }

\* a step of the transactions cycle of worker w
CycleStep(w) ==
    \/ ApiRead(w, "txns", FALSE)
    \/ ApiGraph(w)
    \/ ApiFeedbackDb(w)
    \/ ApiFeedbackGet(w)
    \/ ApiFeedbackSet(w)
    \/ ApiSaveStateMem(w)
    \/ ApiSaveStateRedis(w)
    \/ PollerRead(w)
    \/ PollerGraph(w)
    \/ PollerAdvance(w)

NextLate ==
    \/ InsertTxnAnyStatus
    \/ SettleTxn
    \/ \E w \in Workers : CycleStep(w)

\* continued cycling: the loop of the poller, or triggers that keep coming,
\* run the next step of the cycle whenever there is one
SpecLate ==
    /\ InitIn(LateEnvironments)
    /\ [][NextLate]_vars
    /\ \A w \in Workers : WF_vars(CycleStep(w))

\* C36: every transaction that reaches a settled or blocked status is
\* eventually projected to the graph under continued cycling with healthy
\* stores, also one that was in another status when the watermark passed its
\* created_at.
C36_AsStated ==
    \A i \in 1..Len(TxnProfiles) :
        (Len(txns) >= i /\ txns[i].status \in SettledOrBlocked)
            ~> (CountTxnEdges(gedges, TransferType(version), TxnProfiles[i].id) > 0)



------------------------------------------------------------------------------
(* C37: the stored and the in-memory watermark *)

\* the service is running: its process has not ended at startup
Running == \A w \in env.workers : wk[w].pc # "halted"

\* C37: the durably stored watermark of a stream never exceeds the in-memory
\* watermark of the running service, the two are equal after every
\* successful cursor write, and a service started again resumes from the
\* stored watermark.
C37_AsStated ==
    /\ Running => \A k \in DOMAIN cursor : state[k] = cursor[k]
    /\ [](Running => \A k \in DOMAIN cursor : cursor[k] <= state[k])
    /\ [][\A k \in DOMAIN cursor' :
              (k \notin DOMAIN cursor \/ cursor'[k] # cursor[k]) => cursor'[k] = state'[k]]_vars



------------------------------------------------------------------------------
(* C38: the cached and the relational risk *)

\* C38: cache and source of record stay consistent in one direction: for
\* every users row whose unified identifier has a feature-cache entry, the
\* cached risk element (in hundredths) is not greater than the row's
\* relational risk score (a NULL score counting as 0, as the projection
\* reads it).
C38_AsStated ==
    \A i \in 1..Len(users) :
        EstimatedVpa(users[i].phone_number) \in DOMAIN features =>
            features[EstimatedVpa(users[i].phone_number)][1] <= NormRisk(users[i])



------------------------------------------------------------------------------
(* C39: progress of the polling loop *)

\* The poller with every store reachable and no call failing at will; the
\* sources receive a bounded number of rows, between two methods of the loop,
\* and then no more
ProgressEnvironments ==
    {   [version |-> "poller", maxUsers |-> 1, maxTxns |-> 2, maxDevices |-> 1,
         run |-> {"users", "devices", "txns"}, faults |-> {}, bad |-> {}, quiet |-> TRUE,
         down |-> {}, workers |-> {"w1"}]   }

\* a step of the loop `while True: sync_users(); sync_devices(); sync_transactions()`
PollerStep(w) ==
    \/ PollerRead(w)
    \/ PollerGraph(w)
    \/ PollerAdvance(w)

NextProgress ==
    \/ InsertUser
    \/ InsertDevice
    \/ InsertTxn
    \/ \E w \in Workers : PollerStep(w)

\* the loop goes on: whenever it has a next step, it takes it
SpecProgress ==
    /\ InitIn(ProgressEnvironments)
    /\ [][NextProgress]_vars
    /\ \A w \in Workers : WF_vars(PollerStep(w))

\* the timestamp of the newest eligible record of a stream (the initial
\* watermark when there is none)
Newest(stream) ==
    LET ts == {r[TimeCol(stream)] : r \in {x \in Range(Table(stream)) : Settled(version, stream, x)}}
    IN  IF ts = {} THEN Epoch ELSE CHOOSE t \in ts : \A u \in ts : u <= t

\* every stream's watermark is at its newest eligible record
CaughtUp == \A stream \in StreamsOf(version) : state[StateKey(stream)] = Newest(stream)

\* C39: progress: once the sources receive no more rows, with all stores
\* reachable and the polling loop going on, each stream's watermark
\* eventually equals, and then stays at, the timestamp of the newest eligible
\* source record; and every cycle started from there is an empty no-op.
C39_Progress ==
    /\ <>[]CaughtUp
    /\ [][\A w \in Workers :
              (wk[w].pc \in Resting /\ wk'[w] # wk[w]
                 /\ state[StateKey(wk'[w].stream)] = Newest(wk'[w].stream)) =>
                    /\ wk'[w].pc = "empty"
                    /\ UNCHANGED <<state, cursor, gnodes, gedges, features>>]_vars

\* the loop has caught up on sources that hold rows of every stream, among
\* them a transaction the query does not admit, and its last pull was empty
C39_Witness ==
    /\ CaughtUp
    /\ Len(users) = 1 /\ Len(devices) = 1 /\ Len(txns) = 2
    /\ state["last_txn_time"] = txns[1].created_at
    /\ state["last_user_time"] = users[1].created_at
    /\ state["last_device_time"] = devices[1].first_seen_at
    /\ \E w \in Workers : wk[w].pc = "empty" /\ wk[w].stream = "txns"

====
